---- MODULE Spec2Model ----
(***************************************************************************)
(* Model of the pixel-level enhancement core of the dental photo editor:   *)
(* SmartEnhancementEngine (assets/js/comparison-view.js), the              *)
(* SmartFilters one-touch operations and camera profile matching           *)
(* (assets/js/analytics.js) that drive it, and MLIntegration with its five *)
(* detectors (assets/js/help-system.js).                                   *)
(*                                                                         *)
(* Spec is the engine called directly, with the detection results a        *)
(* caller may hand to setDetectionResults.  DetectSpec is MLIntegration    *)
(* and the SmartFilters operations that detect before they enhance, each   *)
(* call in one step.  AsyncSpec runs the same async calls await by await,  *)
(* two of them in flight.  HandlerSpec is SmartFeaturesErrorHandler with   *)
(* wrapSmartFunction.  AnalysisSpec applies helper functions to inputs of  *)
(* their own: the contour scan, the gum line fit, the profile match on the *)
(* three statistics, and SmartFeaturesTestSuite (unnamed/part_000).        *)
(*                                                                         *)
(* Numbers.  Pixel bytes are integers 0..255.  A strength or level is the  *)
(* integer the caller passes; the code's factor = strength / 100 is kept   *)
(* as that integer percentage and every formula of the code is evaluated   *)
(* exactly over the rationals (numerator and denominator kept apart), then *)
(* converted as the code converts it: Math.floor, Math.round (half up) or  *)
(* the Uint8ClampedArray store (clamp to 0..255, round half to even, NaN   *)
(* stored as 0).  Math.exp of the bilateral filter is tabulated in         *)
(* thousandths.                                                            *)
(*                                                                         *)
(* JavaScript's undefined, null and NaN are the tagged records Undefined,  *)
(* Null and NaN; a number that may be absent is Num(v) or Undefined.       *)
(***************************************************************************)
EXTENDS Integers, Sequences, FiniteSets, TLC

VARIABLES
    detectionResults,   \* SmartEnhancementEngine.detectionResults
    catalogs,           \* the vitaShades, cameraProfiles and professionalPresets objects
    ml,                 \* the MLIntegration object: models, isInitialized, detectionResults
    tasks,              \* the async calls in flight, each with the await it stands at
    handler,            \* SmartFeaturesErrorHandler: errorCounts, fallbackMode, errorLog
    call                \* the last call made on the core: its inputs and what it returned

vars == <<detectionResults, catalogs, ml, tasks, handler, call>>

-----------------------------------------------------------------------------
(* JavaScript values *)

Undefined == [t |-> "undefined"]

Null == [t |-> "null"]

NaN == [t |-> "NaN"]

Num(v) == [t |-> "num", v |-> v]

IsNum(x) == x.t = "num"

Min2(a, b) == IF a <= b THEN a ELSE b

Max2(a, b) == IF a >= b THEN a ELSE b

Max3(a, b, c) == Max2(a, Max2(b, c))

Min3(a, b, c) == Min2(a, Min2(b, c))

\* Math.floor(n / d) for d > 0
FloorDiv(n, d) == n \div d

\* Math.round(n / d) for d > 0: the nearest integer, a half rounded up
MathRound(n, d) == (2 * n + d) \div (2 * d)

\* The store of whole + n / d (d > 0) into a Uint8ClampedArray element:
\* rounded to the nearest integer, a half to the even neighbour, and clamped
\* to 0..255.
ToUint8ClampPlus(whole, n, d) ==
    LET q == whole + (n \div d)
        r == n % d
        nearest == IF 2 * r < d THEN q
                   ELSE IF 2 * r > d THEN q + 1
                   ELSE IF q % 2 = 0 THEN q ELSE q + 1
    IN  IF nearest <= 0 THEN 0
        ELSE IF nearest >= 255 THEN 255
        ELSE nearest

ToUint8Clamp(n, d) == ToUint8ClampPlus(0, n, d)

-----------------------------------------------------------------------------
(* VITA shade catalog *)

Shade(r, g, b, name) == [r |-> r, g |-> g, b |-> b, name |-> name]

\* Object.entries order of the catalog object: insertion order of its keys.
\* The object literal spells the fourth key A3.5 without quotes; the catalog
\* is taken with the key "A3.5" that shadeOrder and the entry's name spell.
VitaShadeKeys ==
    << "A1", "A2", "A3", "A3.5", "A4",
       "B1", "B2", "B3", "B4",
       "C1", "C2", "C3", "C4",
       "D1", "D2", "D3", "D4" >>

loadVITAShades ==
    ( "A1"   :> Shade(255, 248, 240, "A1 - Lightest")
   @@ "A2"   :> Shade(255, 245, 230, "A2 - Light")
   @@ "A3"   :> Shade(255, 240, 220, "A3 - Medium")
   @@ "A3.5" :> Shade(255, 235, 210, "A3.5 - Medium Dark")
   @@ "A4"   :> Shade(255, 230, 200, "A4 - Dark")
   @@ "B1"   :> Shade(255, 248, 235, "B1 - Lightest")
   @@ "B2"   :> Shade(255, 243, 225, "B2 - Light")
   @@ "B3"   :> Shade(255, 238, 215, "B3 - Medium")
   @@ "B4"   :> Shade(255, 233, 205, "B4 - Dark")
   @@ "C1"   :> Shade(255, 245, 220, "C1 - Lightest")
   @@ "C2"   :> Shade(255, 240, 210, "C2 - Light")
   @@ "C3"   :> Shade(255, 235, 200, "C3 - Medium")
   @@ "C4"   :> Shade(255, 230, 190, "C4 - Dark")
   @@ "D1"   :> Shade(255, 243, 215, "D1 - Lightest")
   @@ "D2"   :> Shade(255, 238, 205, "D2 - Light")
   @@ "D3"   :> Shade(255, 233, 195, "D3 - Medium")
   @@ "D4"   :> Shade(255, 228, 185, "D4 - Dark") )

vitaShades == loadVITAShades

\* obj[key] of a JavaScript object: undefined for a key it does not have
Lookup(obj, key) == IF key \in DOMAIN obj THEN obj[key] ELSE Undefined

shadeOrder ==
    << "A4", "A3.5", "A3", "A2", "A1", "B4", "B3", "B2", "B1",
       "C4", "C3", "C2", "C1", "D4", "D3", "D2", "D1" >>

\* Array.prototype.indexOf: the first 0-based index of x, or -1
IndexOf(arr, x) ==
    IF \E i \in 1..Len(arr) : arr[i] = x
    THEN (CHOOSE i \in 1..Len(arr) : arr[i] = x /\ \A j \in 1..(i - 1) : arr[j] # x) - 1
    ELSE -1

-----------------------------------------------------------------------------
(* ShadeClassifier *)

\* isToothPixel with rgbToHsv inlined.  With max, min, delta of the bytes:
\*   s = delta / max (0 when max = 0), v = max / 255,
\*   h = 60 * (g - b) / delta           when max = r and g >= b,
\*       60 * (g - b) / delta + 360     when max = r and g <  b,
\*       60 * ((b - r) / delta + 2)     when max = g (and not r),
\*       60 * ((r - g) / delta + 4)     otherwise; h = 0 when delta = 0.
\* hsv.v <= 1.0 always holds.  The comparisons are made on the exact
\* quotients; the code's doubles agree with them except where h is exactly
\* 80 in the max = g branch, a case none of the colours used below meets.
isToothPixel(r, g, b) ==
    LET max == Max3(r, g, b)
        min == Min3(r, g, b)
        delta == max - min
        hueOk ==
            IF delta = 0 THEN FALSE                        \* h = 0 < 20
            ELSE IF max = r
                 THEN IF g >= b
                      THEN /\ 60 * (g - b) >= 20 * delta   \* 20 <= h, h <= 60
                      ELSE FALSE                           \* h in (300, 360)
            ELSE IF max = g
                 THEN 60 * (b - r) + 120 * delta <= 80 * delta   \* h >= 60
            ELSE FALSE                                     \* h >= 180
        satOk == IF max = 0 THEN TRUE ELSE 10 * delta <= 3 * max
        valOk == 10 * max >= 7 * 255
    IN  hueOk /\ satOk /\ valOk

Dist2(r, g, b, shade) ==
    (r - shade.r) * (r - shade.r) + (g - shade.g) * (g - shade.g)
        + (b - shade.b) * (b - shade.b)

RECURSIVE ClosestFromLastWins(_, _, _, _, _, _)
\* the loop with  distance <= minDistance : the last minimum wins
ClosestFromLastWins(i, r, g, b, minDistance2, closestShade) ==
    IF i > Len(VitaShadeKeys) THEN closestShade
    ELSE IF minDistance2 = -1 \/ Dist2(r, g, b, vitaShades[VitaShadeKeys[i]]) <= minDistance2
         THEN ClosestFromLastWins(i + 1, r, g, b, Dist2(r, g, b, vitaShades[VitaShadeKeys[i]]),
                                  [vitaShades[VitaShadeKeys[i]] EXCEPT !.name = VitaShadeKeys[i]])
         ELSE ClosestFromLastWins(i + 1, r, g, b, minDistance2, closestShade)

RECURSIVE ClosestFrom(_, _, _, _, _, _)
\* the loop of findClosestVITAShade from entry i on; minDistance is kept
\* squared (Math.sqrt is strictly increasing on these integers), with -1
\* standing for Infinity
ClosestFrom(i, r, g, b, minDistance2, closestShade) ==
    IF i > Len(VitaShadeKeys) THEN closestShade
    ELSE LET shadeName == VitaShadeKeys[i]
             shade == vitaShades[shadeName]
             distance2 == Dist2(r, g, b, shade)
         IN  IF minDistance2 = -1 \/ distance2 < minDistance2
             THEN ClosestFrom(i + 1, r, g, b, distance2,
                              [shade EXCEPT !.name = shadeName])
             ELSE ClosestFrom(i + 1, r, g, b, minDistance2, closestShade)

findClosestVITAShade(r, g, b) == ClosestFrom(1, r, g, b, -1, Null)

\* a targetIndex that moves toward the start of the order: currentIndex - stepsToMove
TargetIndexMovingDown(currentIndex, factorPct) ==
    LET stepsToMove == FloorDiv(factorPct * (Len(shadeOrder) - currentIndex - 1), 100)
    IN  Min2(currentIndex - stepsToMove, Len(shadeOrder) - 1)

\* targetIndex of getTargetWhitenedShade(currentShade, factor), with
\* factor = factorPct / 100
TargetIndex(currentIndex, factorPct) ==
    LET stepsToMove == FloorDiv(factorPct * (Len(shadeOrder) - currentIndex - 1), 100)
    IN  Min2(currentIndex + stepsToMove, Len(shadeOrder) - 1)

getTargetWhitenedShade(currentShade, factorPct) ==
    LET currentIndex == IndexOf(shadeOrder, currentShade.name)
        targetIndex == TargetIndex(currentIndex, factorPct)
    IN  IF currentIndex = -1 THEN currentShade
        ELSE IF targetIndex >= 0 /\ targetIndex < Len(shadeOrder)
             THEN Lookup(vitaShades, shadeOrder[targetIndex + 1])
             ELSE Undefined     \* vitaShades[undefined]

\* interpolateColor: Math.round(c1 + (c2 - c1) * factor) per channel
interpolateColor(r1, g1, b1, r2, g2, b2, factorPct) ==
    [r |-> MathRound(100 * r1 + (r2 - r1) * factorPct, 100),
     g |-> MathRound(100 * g1 + (g2 - g1) * factorPct, 100),
     b |-> MathRound(100 * b1 + (b2 - b1) * factorPct, 100)]

-----------------------------------------------------------------------------
(* ImageBuffer: [width, height, data], data the flat RGBA byte sequence.   *)
(* The code's 0-based data[i] is data[i + 1] here.                         *)

ImageData(data, width, height) == [width |-> width, height |-> height, data |-> data]

\* What the platform's ImageData constructor accepts: a positive width and
\* height and a data array of exactly width * height * 4 bytes.
ImageDataConstructorAccepts(data, width, height) ==
    width > 0 /\ height > 0 /\ Len(data) = width * height * 4

\* clamp of an integer to a byte, the Uint8ClampedArray store of an integer
ClampByte(v) == ToUint8Clamp(v, 1)

Ok(data) == [error |-> "none", data |-> data]

Thrown(error, data) == [error |-> error, data |-> data]

-----------------------------------------------------------------------------
(* Whitening *)

\* the assignments  data[i] = clamp(newColor.r) ...  of the pixel loop:
\* the colour stored for a tooth pixel whose target shade is targetShade, or
\* Undefined when targetShade is undefined and reading targetShade.r throws
\* a TypeError
ClampColor(newColor) ==
    [r |-> ClampByte(newColor.r), g |-> ClampByte(newColor.g), b |-> ClampByte(newColor.b)]

WhitenToward(r, g, b, targetShade, strength) ==
    IF targetShade = Undefined THEN Undefined
    ELSE ClampColor(interpolateColor(r, g, b, targetShade.r, targetShade.g,
                                     targetShade.b, strength))

\* the body of the pixel loop of applySmartWhitening: the new colour of one
\* pixel
WhitenPixel(r, g, b, strength) ==
    IF isToothPixel(r, g, b)
    THEN WhitenToward(r, g, b,
                      getTargetWhitenedShade(findClosestVITAShade(r, g, b), strength),
                      strength)
    ELSE [r |-> r, g |-> g, b |-> b]

\* the buffer after the pixel loop has run over pixels 0 .. stop - 1, pixel
\* p taking the colour new[p]
WhitenedUpTo(data, new, stop) ==
    [i \in 1..Len(data) |->
        IF (i - 1) \div 4 >= stop \/ (i - 1) % 4 = 3 THEN data[i]
        ELSE IF (i - 1) % 4 = 0 THEN new[(i - 1) \div 4].r
        ELSE IF (i - 1) % 4 = 1 THEN new[(i - 1) \div 4].g
        ELSE new[(i - 1) \div 4].b]

\* the loop stops at the first pixel whose target shade is undefined,
\* leaving the pixels before it whitened
WhitenLoop(data, new, failing) ==
    IF failing = {} THEN Ok(WhitenedUpTo(data, new, Len(data) \div 4))
    ELSE Thrown("TypeError",
                WhitenedUpTo(data, new, CHOOSE p \in failing : \A q \in failing : p <= q))

FailingPixels(new) == {p \in DOMAIN new : new[p] = Undefined}

NewColours(data, strength) ==
    [p \in 0..(Len(data) \div 4 - 1) |->
        WhitenPixel(data[4 * p + 1], data[4 * p + 2], data[4 * p + 3], strength)]

WhitenWith(data, new) == WhitenLoop(data, new, FailingPixels(new))

\* applySmartWhitening(imageData, strength) on the buffer data, in place.
\* Each pixel is rewritten from its own bytes only.
applySmartWhitening(data, strength) == WhitenWith(data, NewColours(data, strength))

-----------------------------------------------------------------------------
(* Adaptive contrast *)

\* Region bounds are rationals num / den: a tooth bounding box has den 1,
\* the estimated gum rectangle den 10.
Bounds(minX, maxX, minY, maxY, den) ==
    [minX |-> minX, maxX |-> maxX, minY |-> minY, maxY |-> maxY, den |-> den]

\* contrastFactor is kept in tenths: 12 is 1.2, 11 is 1.1, 10 is 1.0
Region(type, bounds, contrastFactor) ==
    [type |-> type, bounds |-> bounds, contrastFactor |-> contrastFactor]

estimateGumBounds(width, height) ==
    Bounds(width * 1, width * 9, height * 6, height * 9, 10)

RECURSIVE ToothRegions(_)
ToothRegions(boundaries) ==
    IF boundaries = << >> THEN << >>
    ELSE << Region("tooth", Head(boundaries).boundingBox, 12) >>
            \o ToothRegions(Tail(boundaries))

\* createEnhancementRegions(width, height), reading this.detectionResults
createEnhancementRegions(results, width, height) ==
    LET tooth == IF results # Null /\ results.teeth # Null
                 THEN ToothRegions(results.teeth.boundaries) ELSE << >>
        gums == IF results # Null /\ results.gums # Null
                THEN << Region("gums", estimateGumBounds(width, height), 11) >>
                ELSE << >>
        background == << Region("background", Bounds(0, width, 0, height, 1), 10) >>
    IN  tooth \o gums \o background

\* contrastFactor as a read of region.contrastFactor would give it
ContrastFactorReadFromRegion(region) == Num(region.contrastFactor)

\* The destructuring  const { minX, maxX, minY, maxY, contrastFactor } = region.bounds
\* reads contrastFactor from the bounds object, which has no such property.

ContrastFactorOf(region) ==
    IF "contrastFactor" \in DOMAIN region.bounds
    THEN Num(region.bounds.contrastFactor) ELSE Undefined

\* One pass of the channel loop: the byte stored for value under
\* factor = globalFactor * contrastFactor, globalFactor = strength / 100.
\* An undefined contrastFactor makes factor, adjusted and the Math.max /
\* Math.min result NaN, which the typed array stores as 0.
RegionFactor(strength, contrastFactor) ==
    IF IsNum(contrastFactor) THEN Num(strength * contrastFactor.v) ELSE NaN

AdjustContrast(value, strength, contrastFactor) ==
    LET factor == RegionFactor(strength, contrastFactor)    \* in thousandths
    IN  IF factor = NaN THEN 0
        ELSE ToUint8Clamp((value - 128) * (1000 + factor.v) + 128000, 1000)

RECURSIVE AdjustTimes(_, _, _, _)
AdjustTimes(value, strength, contrastFactor, k) ==
    IF k = 0 THEN value
    ELSE AdjustTimes(AdjustContrast(value, strength, contrastFactor),
                     strength, contrastFactor, k - 1)

\* applyRegionalContrast(data, width, height, region, globalFactor).  The
\* loops visit (x, y) for floor(minY) <= y < floor(maxY) and
\* floor(minX) <= x < floor(maxX) and rewrite bytes idx, idx+1, idx+2 with
\* idx = (y * width + x) * 4; an index outside the array is not written.  A
\* byte is rewritten once per (x, y) that addresses it.
applyRegionalContrast(data, width, height, region, strength) ==
    LET b == region.bounds
        contrastFactor == ContrastFactorOf(region)
        ys == FloorDiv(b.minY, b.den)..(FloorDiv(b.maxY, b.den) - 1)
        xs == FloorDiv(b.minX, b.den)..(FloorDiv(b.maxX, b.den) - 1)
        hits(i) == Cardinality({<<x, y>> \in xs \X ys : (y * width + x) * 4 = i})
    IN  [i \in 1..Len(data) |->
            LET c == (i - 1) % 4
                idx == (i - 1) - c
            IN  IF c = 3 THEN data[i]
                ELSE AdjustTimes(data[i], strength, contrastFactor, hits(idx))]

RECURSIVE ApplyRegions(_, _, _, _, _)
ApplyRegions(data, width, height, regions, strength) ==
    IF regions = << >> THEN data
    ELSE ApplyRegions(applyRegionalContrast(data, width, height, Head(regions), strength),
                      width, height, Tail(regions), strength)

\* applyAdaptiveContrast(imageData, strength)
applyAdaptiveContrast(results, data, width, height, strength) ==
    Ok(ApplyRegions(data, width, height,
                    createEnhancementRegions(results, width, height), strength))

-----------------------------------------------------------------------------
(* Noise reduction: 3x3 bilateral filter *)

\* Math.exp(-(dx*dx + dy*dy) / (2 * 1 * 1)) in thousandths
SpatialWeight(dx, dy) ==
    LET d2 == dx * dx + dy * dy
    IN  IF d2 = 0 THEN 1000 ELSE IF d2 = 1 THEN 607 ELSE 368

\* Math.exp(-d*d / (2 * 30 * 30)) in thousandths for d = 0, 1, 2, ...;
\* below half a thousandth from d = 117 on
IntensityWeightTable ==
    << 
       1000,  999,  998,  995,  991,  986,  980,  973,  965,  956,  946,  935,  923,
        910,  897,  882,  867,  852,  835,  818,  801,  783,  764,  745,  726,  707,
        687,  667,  647,  627,  607,  586,  566,  546,  526,  506,  487,  467,  448,
        430,  411,  393,  375,  358,  341,  325,  309,  293,  278,  263,  249,  236,
        223,  210,  198,  186,  175,  164,  154,  145,  135,  127,  118,  110,  103,
         96,   89,   83,   77,   71,   66,   61,   56,   52,   48,   44,   40,   37,
         34,   31,   29,   26,   24,   22,   20,   18,   16,   15,   14,   12,   11,
         10,    9,    8,    7,    7,    6,    5,    5,    4,    4,    3,    3,    3,
          2,    2,    2,    2,    2,    1,    1,    1,    1,    1,    1,    1,    1 >>

IntensityWeight(d) ==
    LET a == IF d < 0 THEN -d ELSE d
    IN  IF a < Len(IntensityWeightTable) THEN IntensityWeightTable[a + 1] ELSE 0

\* totalWeight = spatialWeight * intensityWeight, in units of 10^-5
TotalWeight(dx, dy, value, centerValue) ==
    (SpatialWeight(dx, dy) * IntensityWeight(value - centerValue)) \div 10

Window == {-1, 0, 1} \X {-1, 0, 1}

RECURSIVE SumOver(_, _)
SumOver(S, f) ==
    IF S = {} THEN 0
    ELSE LET e == CHOOSE e \in S : TRUE IN f[e] + SumOver(S \ {e}, f)

\* The byte stored in output[centerIdx] for channel c of the interior pixel
\* (x, y):  centerValue * (1 - factor) + filteredValue * factor, with
\* filteredValue = weightedSum / weightSum, which is
\* centerValue + factor * sum(w * (value - centerValue)) / weightSum.
FilteredByte(data, width, x, y, c, strength) ==
    LET centerValue == data[(y * width + x) * 4 + c + 1]
        value == [d \in Window |-> data[((y + d[2]) * width + (x + d[1])) * 4 + c + 1]]
        weight == [d \in Window |-> TotalWeight(d[1], d[2], value[d], centerValue)]
        weightSum == SumOver(Window, weight)
        excess == SumOver(Window, [d \in Window |-> weight[d] * (value[d] - centerValue)])
    IN  ToUint8ClampPlus(centerValue, excess * strength, 100 * weightSum)

\* loops that start one row lower:  for y = 2 .. height-2
InteriorBelowRowOne(x, y, width, height) ==
    x >= 1 /\ x < width - 1 /\ y >= 2 /\ y < height - 1

\* the pixels the loops  for y = 1 .. height-2, for x = 1 .. width-2  visit

Interior(x, y, width, height) ==
    x >= 1 /\ x < width - 1 /\ y >= 1 /\ y < height - 1

\* applyAdaptiveNoiseReduction(imageData, strength): every byte of output
\* is computed from the input buffer, then copied back
applyAdaptiveNoiseReduction(data, width, height, strength) ==
    Ok([i \in 1..Len(data) |->
           LET p == (i - 1) \div 4
               c == (i - 1) % 4
               x == p % width
               y == p \div width
           IN  IF c < 3 /\ Interior(x, y, width, height)
               THEN FilteredByte(data, width, x, y, c, strength)
               ELSE data[i]])

-----------------------------------------------------------------------------
(* Specular control *)

\* c * scale for a pixel of channel sum s = r + g + b > 600 (brightness
\* s / 3 > 200):  scale = 1 - factor * (brightness - 200)^2 / (55 * brightness)
\* so  c * scale = c - c * level * (s - 600)^2 / (16500 * s)
SpecularByte(c, s, level) ==
    ToUint8ClampPlus(c, -(c * (s - 600) * (s - 600) * level), 16500 * s)

\* applySmartSpecularControl(imageData, level)
applySmartSpecularControl(data, level) ==
    Ok([i \in 1..Len(data) |->
           LET p == (i - 1) \div 4
               c == (i - 1) % 4
               s == data[4 * p + 1] + data[4 * p + 2] + data[4 * p + 3]
           IN  IF c < 3 /\ s > 600 THEN SpecularByte(data[i], s, level) ELSE data[i]])

-----------------------------------------------------------------------------
(* Colour correction *)

\* calculateWhiteBalance(histogram): findGrayPoint divides by
\* data.length / 4, but no binding named data is in scope in
\* calculateWhiteBalance (its only parameter is histogram, and no global of
\* that name is defined), so evaluating it throws a ReferenceError.
calculateWhiteBalance(histogram) == [error |-> "ReferenceError"]

\* calculateHistogram(data): per channel, how many pixels have each value
calculateHistogram(data) ==
    LET n == Len(data) \div 4
        count(c, v) == Cardinality({p \in 0..(n - 1) : data[4 * p + c + 1] = v})
    IN  [r |-> [v \in 0..255 |-> count(0, v)],
         g |-> [v \in 0..255 |-> count(1, v)],
         b |-> [v \in 0..255 |-> count(2, v)]]

\* applyColorCorrection(imageData): the throw leaves the buffer as it was
applyColorCorrection(data) ==
    LET whiteBalance == calculateWhiteBalance(calculateHistogram(data))
    IN  Thrown(whiteBalance.error, data)

-----------------------------------------------------------------------------
(* EnhancementOptions and the pipeline *)

\* An options record.  A stage flag that is absent reads as false; a
\* numeric option is Num(v), or Undefined when absent.
Options(smartWhitening, whitening, adaptiveContrast, contrast, adaptiveNoise, noise, smartSpecular, specular, colorCorrection) ==
    [smartWhitening |-> smartWhitening, whitening |-> whitening,
     adaptiveContrast |-> adaptiveContrast, contrast |-> contrast,
     adaptiveNoise |-> adaptiveNoise, noise |-> noise,
     smartSpecular |-> smartSpecular, specular |-> specular,
     colorCorrection |-> colorCorrection]

\* options.x >= 0
NonNegative(x) == IsNum(x) /\ x.v >= 0

\* options.x > 0
Positive(x) == IsNum(x) /\ x.v > 0

\* options.x || dflt: dflt when x is undefined or 0
OrDefault(x, dflt) == IF IsNum(x) /\ x.v # 0 THEN x.v ELSE dflt

Step(stage, enabled, strength) ==
    [stage |-> stage, enabled |-> enabled, strength |-> strength]

\* the five if-statements with the first two in the other order
StepsContrastFirst(options) ==
    << Step("contrast", options.adaptiveContrast \/ Positive(options.contrast),
            OrDefault(options.contrast, 30)),
       Step("whitening", options.smartWhitening \/ Positive(options.whitening),
            OrDefault(options.whitening, 50)),
       Step("noise", options.adaptiveNoise \/ Positive(options.noise),
            OrDefault(options.noise, 40)),
       Step("specular", options.smartSpecular \/ options.specular # Undefined,
            OrDefault(options.specular, -20)),
       Step("color", options.colorCorrection, 0) >>

\* The five if-statements of applySmartEnhancement, in program order: the
\* condition under which each stage runs and the strength it is called with
Steps(options) ==
    << Step("whitening", options.smartWhitening \/ Positive(options.whitening),
            OrDefault(options.whitening, 50)),
       Step("contrast", options.adaptiveContrast \/ Positive(options.contrast),
            OrDefault(options.contrast, 30)),
       Step("noise", options.adaptiveNoise \/ Positive(options.noise),
            OrDefault(options.noise, 40)),
       Step("specular", options.smartSpecular \/ options.specular # Undefined,
            OrDefault(options.specular, -20)),
       Step("color", options.colorCorrection, 0) >>

\* the call a step makes on the working buffer
ApplyStage(stage, results, data, width, height, strength) ==
    IF stage = "whitening" THEN applySmartWhitening(data, strength)
    ELSE IF stage = "contrast"
         THEN applyAdaptiveContrast(results, data, width, height, strength)
    ELSE IF stage = "noise"
         THEN applyAdaptiveNoiseReduction(data, width, height, strength)
    ELSE IF stage = "specular" THEN applySmartSpecularControl(data, strength)
    ELSE applyColorCorrection(data)

\* What a call returns: the enhanced image, or no image when a stage threw;
\* log records the stages that ran, in the order they ran, each with the
\* buffer it was given and the buffer it left.
Returned(image, log) == [error |-> "none", image |-> image, log |-> log]

Rejected(error, log) == [error |-> error, image |-> Null, log |-> log]

\* the call so far after a stage that ran: the stage's outcome r and one
\* more log entry
AfterStage(step, run, r) ==
    [error |-> r.error, data |-> r.data,
     log |-> Append(run.log, [stage |-> step.stage, strength |-> step.strength,
                              input |-> run.data, output |-> r.data])]

\* One if-statement of applySmartEnhancement.  run is the call so far:
\* error "none" and the working buffer, or the error a stage threw; a stage
\* that threw ends the call, so the later stages do not run.
RunStep(step, results, run, width, height) ==
    IF run.error # "none" \/ ~step.enabled THEN run
    ELSE AfterStage(step, run,
                    ApplyStage(step.stage, results, run.data, width, height, step.strength))

\* what the call hands back once the five steps are done
Settle(run, width, height) ==
    IF run.error = "none"
    THEN Returned(ImageData(run.data, width, height), run.log)
    ELSE Rejected(run.error, run.log)

RECURSIVE RunFrom(_, _, _, _, _, _)
\* the if-statements from the i-th on, then the return
RunFrom(i, steps, results, run, width, height) ==
    IF i > Len(steps) THEN Settle(run, width, height)
    ELSE RunFrom(i + 1, steps, results,
                 RunStep(steps[i], results, run, width, height), width, height)

RunSteps(steps, results, data, width, height) ==
    RunFrom(1, steps, results, [error |-> "none", data |-> data, log |-> << >>],
            width, height)

\* applySmartEnhancement(imageData, options) with this.detectionResults =
\* results: the stages work on enhancedData, a copy of imageData.data made
\* with new ImageData(...), which throws when it does not accept the contents
applySmartEnhancement(results, imageData, options) ==
    IF ~ImageDataConstructorAccepts(imageData.data, imageData.width, imageData.height)
    THEN Rejected("DOMException", << >>)
    ELSE RunSteps(Steps(options), results, imageData.data, imageData.width,
                  imageData.height)

\* the option bundles of applySmartEnhance, applyDentalMode, applyClinicalMode
SmartEnhanceOptions ==
    Options(TRUE, Num(30), TRUE, Num(25), TRUE, Num(35), TRUE, Num(-15), TRUE)

DentalModeOptions ==
    Options(TRUE, Num(20), TRUE, Num(40), TRUE, Num(50), TRUE, Num(-25), TRUE)

ClinicalModeOptions ==
    Options(FALSE, Num(0), TRUE, Num(15), TRUE, Num(60), TRUE, Num(-30), TRUE)

-----------------------------------------------------------------------------
(* SmartFilters catalogs *)

CameraProfile(name, noisePattern, colorProfile, specularTendency, noise, contrast, specular) ==
    [name |-> name, noisePattern |-> noisePattern, colorProfile |-> colorProfile,
     specularTendency |-> specularTendency,
     optimizations |-> [noise |-> noise, contrast |-> contrast, specular |-> specular]]

loadCameraProfiles ==
    ( "iphone-13-pro" :> CameraProfile("iPhone 13 Pro", "low-light-optimized",
                                       "apple-standard", "high", 60, 20, -25)
   @@ "iphone-14-pro" :> CameraProfile("iPhone 14 Pro", "advanced-low-light",
                                       "apple-pro", "medium", 50, 25, -20)
   @@ "samsung-s23"   :> CameraProfile("Samsung S23", "samsung-processing",
                                       "samsung-vibrant", "high", 55, 30, -30)
   @@ "google-pixel"  :> CameraProfile("Google Pixel", "computational-photo",
                                       "google-natural", "medium", 45, 15, -15)
   @@ "canon-eos"     :> CameraProfile("Canon EOS", "dslr-clean",
                                       "canon-color", "low", 30, 10, -10)
   @@ "nikon-z"       :> CameraProfile("Nikon Z", "nikon-clean",
                                       "nikon-neutral", "low", 25, 12, -8)
   @@ "sony-alpha"    :> CameraProfile("Sony Alpha", "sony-clean",
                                       "sony-accurate", "medium", 35, 18, -12)
   @@ "dexis"         :> CameraProfile("Dexis Intraoral", "medical-grade",
                                       "clinical-accurate", "very-high", 70, 35, -40)
   @@ "planmeca"      :> CameraProfile("Planmeca Intraoral", "medical-clean",
                                       "planmeca-standard", "high", 65, 30, -35)
   @@ "mikroscan"     :> CameraProfile("Mikroscan Intraoral", "medical-optimized",
                                       "clinical-precise", "high", 60, 32, -38) )

cameraProfiles == loadCameraProfiles

\* preset.settings as the engine reads it: the settings name no stage flag;
\* the engine does not read preserveDetails and the enhance* settings
Preset(name, category, whitening, contrast, noise, specular) ==
    [name |-> name, category |-> category,
     settings |-> Options(FALSE, Num(whitening), FALSE, Num(contrast),
                          FALSE, Num(noise), FALSE, Num(specular), TRUE)]

loadProfessionalPresets ==
    ( "clinical-standard"    :> Preset("Clinical Standard", "clinical", 0, 15, 60, -30)
   @@ "before-after"         :> Preset("Before/After", "clinical", 10, 20, 50, -25)
   @@ "shade-matching"       :> Preset("Shade Matching", "clinical", 0, 10, 70, -35)
   @@ "cosmetic-enhanced"    :> Preset("Cosmetic Enhanced", "aesthetic", 40, 25, 40, -20)
   @@ "social-media"         :> Preset("Social Media", "aesthetic", 50, 30, 35, -15)
   @@ "portfolio"            :> Preset("Portfolio", "aesthetic", 30, 35, 45, -25)
   @@ "diagnostic-detail"    :> Preset("Diagnostic Detail", "diagnostic", 0, 40, 80, -45)
   @@ "plaque-detection"     :> Preset("Plaque Detection", "diagnostic", -10, 50, 30, -40)
   @@ "restoration-analysis" :> Preset("Restoration Analysis", "diagnostic", 0, 45, 75, -50) )

professionalPresets == loadProfessionalPresets

\* the options record applyCameraProfile builds from a profile
CameraProfileOptions(profile) ==
    Options(FALSE, Undefined, TRUE, Num(profile.optimizations.contrast),
            TRUE, Num(profile.optimizations.noise),
            TRUE, Num(profile.optimizations.specular), TRUE)

-----------------------------------------------------------------------------
(* MLIntegration and its detectors (assets/js/help-system.js).             *)
(*                                                                         *)
(* Confidences are kept in hundredths (85 is 0.85).  The comparisons of    *)
(* the colour tests are evaluated exactly over the rationals.  Coordinates *)
(* x, y are 0-based as in the code; pixel (x, y) of a buffer of width w is *)
(* pixel number y * w + x.                                                 *)

\* the reads data[idx], data[idx + 1], data[idx + 2] for idx = 4 * p: the
\* three bytes, or Undefined when one of them lies past the end of data (the
\* read gives undefined, and every formula below that uses it gives NaN)
PixelAt(data, p) ==
    IF 4 * p + 3 <= Len(data)
    THEN << data[4 * p + 1], data[4 * p + 2], data[4 * p + 3] >>
    ELSE Undefined

\* every buffer passes for an ImageData object
AnyObjectIsImageData(imageData) == TRUE

\* Whether imageData is an ImageData object, which ctx.putImageData
\* requires of its argument (it throws a TypeError otherwise): an ImageData
\* object exists only with the contents its constructor accepts.
IsImageData(imageData) ==
    ImageDataConstructorAccepts(imageData.data, imageData.width, imageData.height)

\* grayData[i / 4] = 0.299 * data[i] + 0.587 * data[i + 1] + 0.114 * data[i + 2]
\* for i = 0, 4, ... below data.length, stored into a Uint8ClampedArray of
\* width * height elements: an element the loop does not reach stays 0, a
\* NaN is stored as 0 and a store past the end is dropped
GrayOf(rgb) ==
    IF rgb = Undefined THEN 0
    ELSE ToUint8Clamp(299 * rgb[1] + 587 * rgb[2] + 114 * rgb[3], 1000)

convertToGrayscale(imageData) ==
    [data |-> [k \in 1..(imageData.width * imageData.height) |->
                  GrayOf(PixelAt(imageData.data, k - 1))],
     width |-> imageData.width, height |-> imageData.height]

sobelX == << -1, 0, 1, -2, 0, 2, -1, 0, 1 >>

sobelY == << -1, -2, -1, 0, 0, 0, 1, 2, 1 >>

\* the sum of data[idx] * kernel[kernelIdx] over the 3 x 3 window of (x, y)
RECURSIVE SobelSum(_, _, _, _, _, _)
SobelSum(data, width, x, y, kernel, kernelIdx) ==
    IF kernelIdx > 8 THEN 0
    ELSE LET ky == (kernelIdx \div 3) - 1
             kx == (kernelIdx % 3) - 1
         IN  data[(y + ky) * width + (x + kx) + 1] * kernel[kernelIdx + 1]
                 + SobelSum(data, width, x, y, kernel, kernelIdx + 1)

\* magnitude > 50 for magnitude = Math.sqrt(gx * gx + gy * gy)
MagnitudeAbove50(gx, gy) == gx * gx + gy * gy > 50 * 50

\* the edge byte of pixel (x, y): border pixels are not visited and stay 0
EdgeAt(data, width, height, x, y) ==
    IF x >= 1 /\ x < width - 1 /\ y >= 1 /\ y < height - 1
       /\ MagnitudeAbove50(SobelSum(data, width, x, y, sobelX, 0),
                           SobelSum(data, width, x, y, sobelY, 0))
    THEN 255 ELSE 0

detectEdges(grayImageData) ==
    [data |-> [k \in 1..Len(grayImageData.data) |->
                  EdgeAt(grayImageData.data, grayImageData.width, grayImageData.height,
                         (k - 1) % grayImageData.width, (k - 1) \div grayImageData.width)],
     width |-> grayImageData.width, height |-> grayImageData.height]

\* the loop body that never pushes the neighbour above
TraceStepWithoutUp(edges, stack, x, y, t) ==
    IF x < 0 \/ x >= edges.width \/ y < 0 \/ y >= edges.height
    THEN [t EXCEPT !.stack = stack, !.pops = @ + 1]
    ELSE IF edges.data[y * edges.width + x + 1] # 255 \/ (y * edges.width + x) \in t.visited
    THEN [t EXCEPT !.stack = stack, !.pops = @ + 1,
                   !.reads = Append(@, y * edges.width + x)]
    ELSE [stack |-> stack \o << <<x + 1, y>>, <<x - 1, y>>, <<x, y + 1>> >>,
          visited |-> t.visited \cup {y * edges.width + x},
          contour |-> Append(t.contour, <<x, y>>),
          reads |-> Append(t.reads, y * edges.width + x),
          pops |-> t.pops + 1]

\* the body of the while loop for the popped point (x, y), stack being the
\* stack after the pop: a point outside the map, not an edge or visited is
\* skipped; otherwise it is marked, appended to the contour and its four
\* neighbours are pushed.  reads lists the indices at which edges.data was
\* read (only after the four range tests passed, as || short-circuits) and
\* pops counts the iterations of the loop.
TraceStep(edges, stack, x, y, t) ==
    IF x < 0 \/ x >= edges.width \/ y < 0 \/ y >= edges.height
    THEN [t EXCEPT !.stack = stack, !.pops = @ + 1]
    ELSE IF edges.data[y * edges.width + x + 1] # 255 \/ (y * edges.width + x) \in t.visited
    THEN [t EXCEPT !.stack = stack, !.pops = @ + 1,
                   !.reads = Append(@, y * edges.width + x)]
    ELSE [stack |-> stack \o << <<x + 1, y>>, <<x - 1, y>>, <<x, y + 1>>, <<x, y - 1>> >>,
          visited |-> t.visited \cup {y * edges.width + x},
          contour |-> Append(t.contour, <<x, y>>),
          reads |-> Append(t.reads, y * edges.width + x),
          pops |-> t.pops + 1]

\* traceContour(edges, startX, startY, visited) from the state t of its loop:
\* the contour, with the visited map as the trace leaves it
RECURSIVE TraceLoop(_, _)
TraceLoop(edges, t) ==
    IF t.stack = << >> THEN t
    ELSE TraceLoop(edges,
                   TraceStep(edges, SubSeq(t.stack, 1, Len(t.stack) - 1),
                             t.stack[Len(t.stack)][1], t.stack[Len(t.stack)][2], t))

traceContour(edges, startX, startY, visited) ==
    TraceLoop(edges, [stack |-> << <<startX, startY>> >>, visited |-> visited,
                      contour |-> << >>, reads |-> << >>, pops |-> 0])

\* the contours after the trace t from pixel idx: the contour is kept when
\* contour.length > 10
KeepContour(contours, t) ==
    IF Len(t.contour) > 10 THEN Append(contours, t.contour) ELSE contours

\* the scan of findContours from pixel idx on (rows top to bottom, each left
\* to right); traces lists the traces made so far, kept or not
RECURSIVE ScanFrom(_, _, _, _, _)
ScanContinue(edges, idx, contours, traces, t) ==
    ScanFrom(edges, idx + 1, t.visited, KeepContour(contours, t), Append(traces, t))

ScanFrom(edges, idx, visited, contours, traces) ==
    IF idx >= edges.width * edges.height THEN [contours |-> contours, traces |-> traces]
    ELSE IF edges.data[idx + 1] = 255 /\ idx \notin visited
    THEN ScanContinue(edges, idx, contours, traces,
                      traceContour(edges, idx % edges.width, idx \div edges.width, visited))
    ELSE ScanFrom(edges, idx + 1, visited, contours, traces)

\* findContours(edges) with the traces it made
Scan(edges) == ScanFrom(edges, 0, {}, << >>, << >>)

findContours(edges) == Scan(edges).contours

\* the point after contour[i] in the closed polygon: contour[(i + 1) % length]
NextPoint(contour, i) == contour[(i % Len(contour)) + 1]

\* twice the signed sum of the shoelace formula over the points from the
\* i-th on; calculateArea is Math.abs of it, halved
RECURSIVE ShoelaceFrom(_, _)
ShoelaceFrom(contour, i) ==
    IF i > Len(contour) THEN 0
    ELSE contour[i][1] * NextPoint(contour, i)[2]
             - NextPoint(contour, i)[1] * contour[i][2]
             + ShoelaceFrom(contour, i + 1)

Abs(v) == IF v < 0 THEN -v ELSE v

\* calculateArea(contour), doubled
calculateArea2(contour) == Abs(ShoelaceFrom(contour, 1))

\* the largest k with k * k <= n
RECURSIVE IsqrtFrom(_, _)
IsqrtFrom(n, k) == IF (k + 1) * (k + 1) > n THEN k ELSE IsqrtFrom(n, k + 1)

\* the length of the segment from contour[i] to the next point, in tenths
\* of a pixel, rounded down
SegmentTenths(contour, i) ==
    LET dx == NextPoint(contour, i)[1] - contour[i][1]
        dy == NextPoint(contour, i)[2] - contour[i][2]
    IN  IsqrtFrom(100 * (dx * dx + dy * dy), 0)

\* calculatePerimeter(contour) in tenths of a pixel
RECURSIVE PerimeterFrom(_, _)
PerimeterFrom(contour, i) ==
    IF i > Len(contour) THEN 0
    ELSE SegmentTenths(contour, i) + PerimeterFrom(contour, i + 1)

calculatePerimeter(contour) == PerimeterFrom(contour, 1)

\* circularity > 0.3 && circularity < 0.8 for circularity =
\* 4 * Math.PI * area / perimeter^2, that is
\* 2.5 * PI * area2 < perimeter^2 < (20 / 3) * PI * area2, with PI taken as
\* 3.1416 and the perimeter in tenths
CircularityInRange(area2, perimeter) ==
    /\ 7854 * area2 < 10 * perimeter * perimeter
    /\ 10 * perimeter * perimeter < 20944 * area2

\* area > 500 && area < 50000 && circularity > 0.3 && circularity < 0.8
isToothLike(contour) ==
    /\ calculateArea2(contour) > 2 * 500
    /\ calculateArea2(contour) < 2 * 50000
    /\ CircularityInRange(calculateArea2(contour), calculatePerimeter(contour))

RECURSIVE MinOver(_, _, _)
MinOver(contour, c, i) ==
    IF i = Len(contour) THEN contour[i][c]
    ELSE Min2(contour[i][c], MinOver(contour, c, i + 1))

RECURSIVE MaxOver(_, _, _)
MaxOver(contour, c, i) ==
    IF i = Len(contour) THEN contour[i][c]
    ELSE Max2(contour[i][c], MaxOver(contour, c, i + 1))

\* contourToBoundary(contour); center is kept doubled: [minX + maxX, minY + maxY]
BoundaryOf(points, minX, maxX, minY, maxY) ==
    [points |-> points, boundingBox |-> Bounds(minX, maxX, minY, maxY, 1),
     center |-> << minX + maxX, minY + maxY >>]

contourToBoundary(contour) ==
    BoundaryOf(contour, MinOver(contour, 1, 1), MaxOver(contour, 1, 1),
               MinOver(contour, 2, 1), MaxOver(contour, 2, 1))

RECURSIVE filterToothContours(_)
filterToothContours(contours) ==
    IF contours = << >> THEN << >>
    ELSE (IF isToothLike(Head(contours)) THEN << contourToBoundary(Head(contours)) >>
          ELSE << >>) \o filterToothContours(Tail(contours))

calculateConfidence(teeth) ==
    IF Len(teeth) = 0 THEN 0
    ELSE IF Len(teeth) < 4 THEN 60
    ELSE IF Len(teeth) < 8 THEN 80
    ELSE 90

\* the object ToothDetector.detect returns for the teeth it kept
ToothResult(teeth) ==
    [boundaries |-> teeth, count |-> Len(teeth), confidence |-> calculateConfidence(teeth)]

\* the object with its count taken from the contours found
ToothResultCountingContours(contours) ==
    [boundaries |-> filterToothContours(contours), count |-> Len(contours),
     confidence |-> calculateConfidence(filterToothContours(contours))]

\* the object ToothDetector.detect builds from the contours: the teeth are
\* the contours the filter keeps
ToothResultOf(contours) == ToothResult(filterToothContours(contours))

\* ToothDetector.detect(imageData), once the canvas has taken the image
ToothDetector_detect(imageData) ==
    ToothResultOf(findContours(detectEdges(convertToGrayscale(imageData))))

\* hue >= 0 && hue <= 30 for hue = rgbToHue(r, g, b): delta = 0 gives hue 0;
\* max = r gives 60 * ((g - b) / delta), which is negative for g < b; max = g
\* (and not r) gives a hue in 60..180 and max = b one in 180..300
HueInRange(r, g, b) ==
    LET max == Max3(r, g, b)
        delta == Max3(r, g, b) - Min3(r, g, b)
    IN  \/ delta = 0
        \/ max = r /\ g >= b /\ 2 * (g - b) <= delta

\* rgbToSaturation(r, g, b) > 0.2: delta / max > 1 / 5, and 0 for max = 0
SaturationAbove20(r, g, b) ==
    Max3(r, g, b) # 0 /\ 5 * (Max3(r, g, b) - Min3(r, g, b)) > Max3(r, g, b)

\* the colour test on the hue alone
isGumColorByHueAlone(r, g, b) == HueInRange(r, g, b)

\* isGumColor(r, g, b); brightness = (r + g + b) / 3
isGumColor(r, g, b) ==
    /\ HueInRange(r, g, b)
    /\ SaturationAbove20(r, g, b)
    /\ r + g + b > 3 * 50
    /\ r + g + b < 3 * 200

\* the gum points of detectGumLine from pixel p on, as [x, y] in the order of
\* the two loops; a pixel read past the end of data is not gum-coloured
RECURSIVE GumPointsFrom(_, _)
GumPointsFrom(imageData, p) ==
    IF p >= imageData.width * imageData.height THEN << >>
    ELSE (IF PixelAt(imageData.data, p) # Undefined
             /\ isGumColor(PixelAt(imageData.data, p)[1], PixelAt(imageData.data, p)[2],
                           PixelAt(imageData.data, p)[3])
          THEN << << p % imageData.width, p \div imageData.width >> >>
          ELSE << >>) \o GumPointsFrom(imageData, p + 1)

\* the sum over the points from the i-th on of point[a] * point[b]; index 0
\* stands for the factor 1
RECURSIVE SumOfProducts(_, _, _, _)
SumOfProducts(points, a, b, i) ==
    IF i > Len(points) THEN 0
    ELSE (IF a = 0 THEN 1 ELSE points[i][a]) * (IF b = 0 THEN 1 ELSE points[i][b])
             + SumOfProducts(points, a, b, i + 1)

\* num / den as the code's division gives it: the fraction, NaN for 0 / 0,
\* an infinity for another numerator over 0
Quotient(num, den) ==
    IF den # 0 THEN [t |-> "ratio", num |-> num, den |-> den]
    ELSE IF num = 0 THEN NaN
    ELSE [t |-> "infinity", negative |-> num < 0]

\* slope = (n * sumXY - sumX * sumY) / (n * sumX2 - sumX * sumX) and
\* intercept = (sumY - slope * sumX) / n
LineOf(points, n, sumX, sumY, sumXY, sumX2) ==
    LET num == n * sumXY - sumX * sumY
        den == n * sumX2 - sumX * sumX
    IN  [slope |-> Quotient(num, den),
         intercept |-> IF den # 0 THEN Quotient(sumY * den - num * sumX, den * n)
                       ELSE IF num = 0 \/ sumX = 0 THEN NaN
                       ELSE [t |-> "infinity", negative |-> num > 0],
         points |-> points]

fitGumLine(points) ==
    IF Len(points) < 2 THEN Null
    ELSE LineOf(points, Len(points), SumOfProducts(points, 1, 0, 1),
                SumOfProducts(points, 2, 0, 1), SumOfProducts(points, 1, 2, 1),
                SumOfProducts(points, 1, 1, 1))

detectGumLine(imageData) == fitGumLine(GumPointsFrom(imageData, 0))

GumDetector_detect(imageData) ==
    [line |-> detectGumLine(imageData), confidence |-> 85]

\* width / 3 and the like are kept as the pair numerator, denominator
Zone(x, y, width, height) ==
    [x |-> <<x, 3>>, y |-> <<y, 3>>, width |-> <<width, 3>>, height |-> <<height, 3>>]

detectSmileZones(imageData) ==
    [anterior |-> Zone(imageData.width, imageData.height, imageData.width,
                       imageData.height),
     posterior |-> [left |-> Zone(0, imageData.height, imageData.width,
                                  imageData.height),
                    right |-> Zone(2 * imageData.width, imageData.height,
                                   imageData.width, imageData.height)]]

SmileZoneClassifier_classify(imageData) ==
    [anterior |-> detectSmileZones(imageData).anterior,
     posterior |-> detectSmileZones(imageData).posterior,
     confidence |-> 80]

\* brightness > 180 && yellowTint > 10 && yellowTint < 40 with
\* brightness = (r + g + b) / 3 and yellowTint = (r + g) / 2 - b
isPlaqueColor(r, g, b) ==
    /\ r + g + b > 3 * 180
    /\ r + g - 2 * b > 2 * 10
    /\ r + g - 2 * b < 2 * 40

\* (brightness > 200 && colorVariance < 20) ||
\* (brightness > 150 && brightness < 200 && colorVariance > 30)
isRestorationMaterial(r, g, b) ==
    \/ r + g + b > 3 * 200 /\ Max3(r, g, b) - Min3(r, g, b) < 20
    \/ /\ r + g + b > 3 * 150
       /\ r + g + b < 3 * 200
       /\ Max3(r, g, b) - Min3(r, g, b) > 30

\* the sampling loops of detectPlaque and detectRestorations, which visit
\* (x, y) for y = 0, 10, ... below height and x = 0, 10, ... below width:
\* the samples from the k-th on (row k \div columns, column k % columns of
\* the sampling grid) that pass the colour test, each as { x, y, radius: 5 }
SampleColumns(imageData) == (imageData.width + 9) \div 10

SampleRows(imageData) == (imageData.height + 9) \div 10

SamplePixel(imageData, k) ==
    PixelAt(imageData.data,
            10 * (k \div SampleColumns(imageData)) * imageData.width
                + 10 * (k % SampleColumns(imageData)))

Area(imageData, k) ==
    [x |-> 10 * (k % SampleColumns(imageData)),
     y |-> 10 * (k \div SampleColumns(imageData)), radius |-> 5]

RECURSIVE PlaqueFrom(_, _)
PlaqueFrom(imageData, k) ==
    IF k >= SampleColumns(imageData) * SampleRows(imageData) THEN << >>
    ELSE (IF SamplePixel(imageData, k) # Undefined
             /\ isPlaqueColor(SamplePixel(imageData, k)[1], SamplePixel(imageData, k)[2],
                              SamplePixel(imageData, k)[3])
          THEN << Area(imageData, k) >> ELSE << >>) \o PlaqueFrom(imageData, k + 1)

detectPlaque(imageData) == PlaqueFrom(imageData, 0)

PlaqueDetector_detect(imageData) ==
    [areas |-> detectPlaque(imageData), confidence |-> 70]

RECURSIVE RestorationsFrom(_, _)
RestorationsFrom(imageData, k) ==
    IF k >= SampleColumns(imageData) * SampleRows(imageData) THEN << >>
    ELSE (IF SamplePixel(imageData, k) # Undefined
             /\ isRestorationMaterial(SamplePixel(imageData, k)[1],
                                      SamplePixel(imageData, k)[2],
                                      SamplePixel(imageData, k)[3])
          THEN << Area(imageData, k) >> ELSE << >>)
             \o RestorationsFrom(imageData, k + 1)

detectRestorations(imageData) == RestorationsFrom(imageData, 0)

RestorationDetector_detect(imageData) ==
    [areas |-> detectRestorations(imageData), confidence |-> 60]

\* the outcome of a detection call: the results object, or the error thrown
Detected(results) == [error |-> "none", results |-> results]

NotDetected(error) == [error |-> error, results |-> Null]

\* detectDentalFeatures without the test of this.isInitialized
detectDentalFeaturesUngated(isInitialized, imageData, now) ==
    IF ~IsImageData(imageData) THEN NotDetected("TypeError")
    ELSE Detected([teeth |-> ToothDetector_detect(imageData),
                   gums |-> GumDetector_detect(imageData),
                   smileZones |-> SmileZoneClassifier_classify(imageData),
                   plaque |-> PlaqueDetector_detect(imageData),
                   restorations |-> RestorationDetector_detect(imageData),
                   timestamp |-> now])

\* MLIntegration.detectDentalFeatures(imageData) with this.isInitialized =
\* isInitialized and Date.now() = now.  The first detector to run,
\* ToothDetector.detect, hands imageData to ctx.putImageData before anything
\* else is computed.
detectDentalFeatures(isInitialized, imageData, now) ==
    IF ~isInitialized THEN NotDetected("Error")
    ELSE IF ~IsImageData(imageData) THEN NotDetected("TypeError")
    ELSE Detected([teeth |-> ToothDetector_detect(imageData),
                   gums |-> GumDetector_detect(imageData),
                   smileZones |-> SmileZoneClassifier_classify(imageData),
                   plaque |-> PlaqueDetector_detect(imageData),
                   restorations |-> RestorationDetector_detect(imageData),
                   timestamp |-> now])

-----------------------------------------------------------------------------
(* Camera profile matching (SmartFilters.detectCameraProfile).             *)
(*                                                                         *)
(* A sub-score is kept in tenths (8 is 0.8) and a profile's score, the sum *)
(* of its three sub-scores divided by 3, in thirtieths.  The doubles the   *)
(* code adds and divides order the scores of this catalog's profiles, for  *)
(* every value of the three statistics, as the exact sums do.              *)

\* the catalog's keys in the order Object.entries visits them
profileOrder ==
    << "iphone-13-pro", "iphone-14-pro", "samsung-s23", "google-pixel", "canon-eos",
       "nikon-z", "sony-alpha", "dexis", "planmeca", "mikroscan" >>

\* string.includes(part) on the strings of the catalog
Includes(string, part) ==
    CASE part = "medical" ->
            string \in {"medical-grade", "medical-clean", "medical-optimized"}
      [] part = "dslr" -> string \in {"dslr-clean"}
      [] part = "low-light" -> string \in {"low-light-optimized", "advanced-low-light"}
      [] part = "apple" -> string \in {"apple-standard", "apple-pro"}
      [] part = "samsung" -> string \in {"samsung-vibrant", "samsung-processing"}
      [] part = "clinical" -> string \in {"clinical-accurate", "clinical-precise"}

\* comparisons of a quotient q = num / den (den > 0) or NaN with v / w:
\* every comparison with NaN is false
Below(q, v, w) == q # NaN /\ q.num * w < v * q.den

Above(q, v, w) == q # NaN /\ q.num * w > v * q.den

\* the sum of the three colour bytes of pixel p
Sum3(data, p) == data[4 * p + 1] + data[4 * p + 2] + data[4 * p + 3]

\* the sample points of analyzeNoisePattern along one axis of length n:
\* 10, 30, ... below n - 10
SamplePoints(n) == { c \in 0..(n - 1) : c >= 10 /\ c < n - 10 /\ (c - 10) % 20 = 0 }

RECURSIVE SumSet(_, _)
\* the sum of f over the set S
SumSet(f, S) ==
    IF S = {} THEN 0
    ELSE LET e == CHOOSE e \in S : TRUE
         IN  f[e] + SumSet(f, S \ {e})

\* the local variance at sample (x, y), times 9 * 25: value - centerValue
\* is a third of the difference of the byte sums, and count is 25
Variance225(data, width, x, y) ==
    LET W == { <<dx, dy>> : dx \in -2..2, dy \in -2..2 }
        sq == [w \in W |->
                 (Sum3(data, (y + w[2]) * width + (x + w[1]))
                      - Sum3(data, y * width + x))
                 * (Sum3(data, (y + w[2]) * width + (x + w[1]))
                      - Sum3(data, y * width + x))]
    IN  SumSet(sq, W)

\* analyzeNoisePattern(data, width, height): noiseSum / sampleCount, which
\* is 0 / 0 when the image has no sample point
analyzeNoisePattern(data, width, height) ==
    LET S == { <<x, y>> : x \in SamplePoints(width), y \in SamplePoints(height) }
        v == [s \in S |-> Variance225(data, width, s[1], s[2])]
    IN  Quotient(SumSet(v, S), 225 * Cardinality(S))

\* the sum of data[i + c] over the pixels lo..hi (i = 4 * lo, ..., 4 * hi),
\* added up by halves
RECURSIVE ChannelSum(_, _, _, _)
ChannelSum(data, c, lo, hi) ==
    IF lo > hi THEN 0
    ELSE IF lo = hi THEN data[4 * lo + c + 1]
    ELSE ChannelSum(data, c, lo, (lo + hi) \div 2)
             + ChannelSum(data, c, (lo + hi) \div 2 + 1, hi)

\* analyzeColorProfile(data): the three averages, kept as the three sums
\* and the pixel count that divides each
analyzeColorProfile(data) ==
    [r |-> ChannelSum(data, 0, 0, (Len(data) + 3) \div 4 - 1),
     g |-> ChannelSum(data, 1, 0, (Len(data) + 3) \div 4 - 1),
     b |-> ChannelSum(data, 2, 0, (Len(data) + 3) \div 4 - 1),
     pixelCount |-> (Len(data) + 3) \div 4]

\* brightness > 200
IsBright(data, p) == Sum3(data, p) > 3 * 200

\* colorVariance < 20
IsSpecular(data, p) ==
    Max3(data[4 * p + 1], data[4 * p + 2], data[4 * p + 3])
        - Min3(data[4 * p + 1], data[4 * p + 2], data[4 * p + 3]) < 20

\* analyzeSpecularTendency(data): specularCount / brightPixelCount, or 0
TendencyOf(specularCount, brightPixelCount) ==
    IF brightPixelCount > 0 THEN Quotient(specularCount, brightPixelCount)
    ELSE Quotient(0, 1)

analyzeSpecularTendency(data) ==
    TendencyOf(Cardinality({ p \in 0..(Len(data) \div 4 - 1) :
                               IsBright(data, p) /\ IsSpecular(data, p) }),
               Cardinality({ p \in 0..(Len(data) \div 4 - 1) : IsBright(data, p) }))

\* the low-light branch scoring 0.4, as the medical branch does, on noise
\* that is not above 100
calculateNoiseMatchLowLightAt4(noiseLevel, pattern) ==
    IF Includes(pattern, "medical") THEN (IF Below(noiseLevel, 100, 1) THEN 8 ELSE 4)
    ELSE IF Includes(pattern, "dslr") THEN (IF Below(noiseLevel, 50, 1) THEN 9 ELSE 3)
    ELSE IF Includes(pattern, "low-light")
    THEN (IF Above(noiseLevel, 100, 1) THEN 8 ELSE 4)
    ELSE 5

calculateNoiseMatch(noiseLevel, pattern) ==
    IF Includes(pattern, "medical") THEN (IF Below(noiseLevel, 100, 1) THEN 8 ELSE 4)
    ELSE IF Includes(pattern, "dslr") THEN (IF Below(noiseLevel, 50, 1) THEN 9 ELSE 3)
    ELSE IF Includes(pattern, "low-light")
    THEN (IF Above(noiseLevel, 100, 1) THEN 8 ELSE 5)
    ELSE 5

\* Math.abs(colorProfile.r - colorProfile.g) < 10 on the averages
CloseRedGreen(colorProfile) ==
    /\ colorProfile.pixelCount > 0
    /\ Abs(colorProfile.r - colorProfile.g) < 10 * colorProfile.pixelCount

calculateColorMatch(colorProfile, profile) ==
    IF Includes(profile, "apple")
    THEN (IF colorProfile.pixelCount > 0 /\ colorProfile.r > colorProfile.g THEN 7 ELSE 5)
    ELSE IF Includes(profile, "samsung")
    THEN (IF colorProfile.pixelCount > 0 /\ colorProfile.g > colorProfile.b THEN 7 ELSE 5)
    ELSE IF Includes(profile, "clinical")
    THEN (IF CloseRedGreen(colorProfile) THEN 8 ELSE 4)
    ELSE 5

calculateSpecularMatch(tendency, profile) ==
    IF profile = "very-high" THEN (IF Above(tendency, 7, 10) THEN 9 ELSE 3)
    ELSE IF profile = "high" THEN (IF Above(tendency, 5, 10) THEN 8 ELSE 4)
    ELSE IF profile = "medium"
    THEN (IF Above(tendency, 3, 10) /\ Below(tendency, 7, 10) THEN 8 ELSE 4)
    ELSE IF profile = "low" THEN (IF Below(tendency, 3, 10) THEN 8 ELSE 4)
    ELSE 5

\* calculateProfileMatch: score / 3, in thirtieths
calculateProfileMatch(noiseLevel, colorProfile, specularTendency, profile) ==
    calculateNoiseMatch(noiseLevel, profile.noisePattern)
        + calculateColorMatch(colorProfile, profile.colorProfile)
        + calculateSpecularMatch(specularTendency, profile.specularTendency)

\* the three statistics detectCameraProfile computes of an image
Statistics(noiseLevel, colorProfile, specularTendency) ==
    [noiseLevel |-> noiseLevel, colorProfile |-> colorProfile,
     specularTendency |-> specularTendency]

StatisticsOf(imageData) ==
    Statistics(analyzeNoisePattern(imageData.data, imageData.width, imageData.height),
               analyzeColorProfile(imageData.data),
               analyzeSpecularTendency(imageData.data))

ScoreOf(stats, profile) ==
    calculateProfileMatch(stats.noiseLevel, stats.colorProfile, stats.specularTendency,
                          profile)

\* a later profile replaces the best match also on an equal score
ReplacesBestOnEqual(score, bestScore) == score >= bestScore

\* if (score > bestScore): whether a profile replaces the best match so far
ReplacesBest(score, bestScore) == score > bestScore

\* the loop over Object.entries(this.cameraProfiles) from the i-th entry on
RECURSIVE MatchFrom(_, _, _, _, _)
MatchFrom(profiles, stats, i, bestMatch, bestScore) ==
    IF i > Len(profileOrder) THEN bestMatch
    ELSE IF ReplacesBest(ScoreOf(stats, profiles[profileOrder[i]]), bestScore)
    THEN MatchFrom(profiles, stats, i + 1, profileOrder[i],
                   ScoreOf(stats, profiles[profileOrder[i]]))
    ELSE MatchFrom(profiles, stats, i + 1, bestMatch, bestScore)

\* bestMatch = null and bestScore = 0 before the loop
BestMatch(profiles, stats) == MatchFrom(profiles, stats, 1, Null, 0)

detectCameraProfile(profiles, imageData) == BestMatch(profiles, StatisticsOf(imageData))

-----------------------------------------------------------------------------
(* Inputs *)

\* images are Dim x Dim
Dim == 3

\* at most MaxTeeth tooth boundaries in a detection result
MaxTeeth == 1

Pixel(r, g, b, a) == << r, g, b, a >>

ToothA1 == Pixel(255, 248, 240, 255)

ToothA4 == Pixel(255, 230, 200, 255)

ToothC4 == Pixel(255, 230, 190, 255)

White == Pixel(255, 255, 255, 255)

Gum == Pixel(200, 100, 100, 200)

Dark == Pixel(40, 30, 20, 255)

\* the image whose pixel (x, y) is at[x, y]
ImageOf(at) ==
    ImageData([i \in 1..(Dim * Dim * 4) |->
                  LET p == (i - 1) \div 4
                  IN  at[p % Dim, p \div Dim][((i - 1) % 4) + 1]],
              Dim, Dim)

Flat(colour) == ImageOf([x \in 0..(Dim - 1), y \in 0..(Dim - 1) |-> colour])

\* colour everywhere except the pixel in the middle
Spot(colour, spot) ==
    ImageOf([x \in 0..(Dim - 1), y \in 0..(Dim - 1) |->
                IF x = Dim \div 2 /\ y = Dim \div 2 THEN spot ELSE colour])

\* the flat 4 x 4 all-white image
AllWhite4x4 == ImageData([i \in 1..(4 * 4 * 4) |-> 255], 4, 4)

Images ==
    { Flat(ToothA1), Spot(ToothA1, ToothC4), Spot(ToothA4, White), Spot(Gum, White),
      Spot(Dark, Gum), AllWhite4x4 }

\* A DetectionResult as the engine reads it: the tooth boundaries with
\* their bounding boxes, and the gum sub-result (an object whether or not a
\* line was fitted).
ToothBoundary(minX, maxX, minY, maxY) ==
    [boundingBox |-> Bounds(minX, maxX, minY, maxY, 1)]

ToothBoundaries ==
    { ToothBoundary(0, 2, 0, 2), ToothBoundary(1, Dim, 1, Dim) }

RECURSIVE SeqsUpTo(_, _)
SeqsUpTo(S, n) ==
    IF n = 0 THEN { << >> }
    ELSE LET shorter == SeqsUpTo(S, n - 1)
         IN  shorter \cup { Append(q, e) : q \in shorter, e \in S }

DetectionResult(boundaries) ==
    [teeth |-> [boundaries |-> boundaries, count |-> Len(boundaries)],
     gums |-> [confidence |-> 85]]

\* The results a direct setDetectionResults may hand to the engine: any
\* well-formed result with up to MaxTeeth boundaries.  What the detectors
\* themselves compute from an image is detectDentalFeatures.
DetectionResults == { DetectionResult(bs) : bs \in SeqsUpTo(ToothBoundaries, MaxTeeth) }

Strengths == {0, 10, 50, 100}

\* a stage's flag and numeric option, as the caller may set them
WhiteningSettings ==
    { <<FALSE, Undefined>>, <<FALSE, Num(0)>>, <<FALSE, Num(30)>>,
      <<TRUE, Undefined>>, <<TRUE, Num(-10)>> }

ContrastSettings == { <<FALSE, Undefined>>, <<FALSE, Num(0)>>, <<FALSE, Num(25)>> }

NoiseSettings ==
    { <<FALSE, Undefined>>, <<FALSE, Num(0)>>, <<TRUE, Num(0)>>, <<TRUE, Num(100)>> }

SpecularSettings == { <<FALSE, Undefined>>, <<FALSE, Num(0)>>, <<TRUE, Num(-15)>> }

IsDefault(setting) == setting = <<FALSE, Undefined>>

\* the options records passed to applySmartEnhancement directly: at most
\* two of the five stages are set away from "absent"
OptionsDomain ==
    { Options(w[1], w[2], c[1], c[2], n[1], n[2], s[1], s[2], cc) :
        <<w, c, n, s, cc>> \in
            { t \in WhiteningSettings \X ContrastSettings \X NoiseSettings
                      \X SpecularSettings \X BOOLEAN :
                Cardinality({ k \in 1..4 : ~IsDefault(t[k]) })
                    + (IF t[5] THEN 1 ELSE 0) <= 2 } }

\* colours whose closest shades cover the catalog: the catalog's own colours
ProbeColours == { << vitaShades[k].r, vitaShades[k].g, vitaShades[k].b >> : k \in DOMAIN vitaShades }

FactorPcts == {0, 10, 25, 50, 75, 100}

\* colours passed to findClosestVITAShade on their own: the catalog's, three
\* that lie at the same distance from two shades, and two far from all
ShadeProbes ==
    ProbeColours \cup { <<255, 211, 195>>, <<255, 214, 226>>, <<255, 184, 254>>,
                        <<200, 100, 100>>, <<0, 0, 0>> }

\* the n x n image whose pixel (x, y) is at[x, y]
Sized(n, at) ==
    ImageData([i \in 1..(n * n * 4) |->
                  at[((i - 1) \div 4) % n, ((i - 1) \div 4) \div n][((i - 1) % 4) + 1]],
              n, n)

\* a 6 x 6 image, dark with a white 2 x 2 block in the middle: its edge
\* pixels form one contour of 16 points
Block6 ==
    Sized(6, [x \in 0..5, y \in 0..5 |->
                 IF x \in 2..3 /\ y \in 2..3 THEN White ELSE Dark])

\* a 6 x 6 image, left half dark and right half white: its edge pixels form
\* one component of 8 points
Halves6 == Sized(6, [x \in 0..5, y \in 0..5 |-> IF x >= 3 THEN White ELSE Dark])

\* a 6 x 6 image of gum colour
Gum6 == Sized(6, [x \in 0..5, y \in 0..5 |-> Gum])

\* the images handed to detectDentalFeatures on its own
DetectImages == Images \cup { Block6, Halves6, Gum6 }

\* Buffers that break the invariant data.length = width * height * 4 or
\* have a zero dimension: one pixel short, one byte short, one row too
\* long, and of zero width or height.
MalformedImages ==
    { ImageData(SubSeq(Flat(Gum).data, 1, Dim * Dim * 4 - 4), Dim, Dim),
      ImageData(SubSeq(Flat(Gum).data, 1, Dim * Dim * 4 - 1), Dim, Dim),
      ImageData(Flat(White).data, Dim, Dim - 1),
      ImageData(<< >>, 0, Dim),
      ImageData(Flat(White).data, Dim, 0) }

\* a 21 x 21 image, the smallest analyzeNoisePattern takes a sample of (at
\* (10, 10)): colour everywhere except the sample point
Large(colour, spot) ==
    Sized(21, [x \in 0..20, y \in 0..20 |->
                  IF x = 10 /\ y = 10 THEN spot ELSE colour])

\* a bright colour with red 12 above green
Warm == Pixel(255, 243, 240, 255)

\* the images handed to detectCameraProfile
ProfileImages ==
    Images \cup { Flat(Warm), Gum6, Large(White, White), Large(White, ToothA1),
                  Large(Dark, White), Large(Gum, Gum) }

\* the five detectors loadDentalModels creates
DentalModels ==
    { "toothDetector", "gumDetector", "smileZoneClassifier", "plaqueDetector",
      "restorationDetector" }

-----------------------------------------------------------------------------
(* The state machine: one action per call on the core.  The core is       *)
(* synchronous and single-threaded: a call is made when no other call is   *)
(* outstanding, runs to completion in one step, and its record stays in    *)
(* call until the caller has taken the result (Return).  The async calls   *)
(* are taken in one step here and await by await in AsyncSpec.             *)

Idle == call.op = "none"

\* the catalog objects as the two constructors load them
LoadedCatalogs ==
    [vitaShades |-> loadVITAShades, cameraProfiles |-> loadCameraProfiles,
     professionalPresets |-> loadProfessionalPresets]

\* a catalog entry after a lookup that wrote the key into the entry:  shade.name = shadeName
ShadeEntryRenamed(shade, shadeName) == [shade EXCEPT !.name = shadeName]

\* A catalog entry after findClosestVITAShade made it the closest shade:
\* closestShade = { ...shade, name: shadeName } is a new object, the entry
\* itself is not written.
ShadeEntryAfterLookup(shade, shadeName) == shade

\* the catalogs after findClosestVITAShade returned the shades named in keys
CatalogsAfterLookup(cs, keys) ==
    [cs EXCEPT !.vitaShades =
        [k \in DOMAIN cs.vitaShades |->
            IF k \in keys THEN ShadeEntryAfterLookup(cs.vitaShades[k], k)
            ELSE cs.vitaShades[k]]]

\* the shades findClosestVITAShade returns for the tooth pixels of data
LookedUp(data) ==
    { findClosestVITAShade(data[4 * p + 1], data[4 * p + 2], data[4 * p + 3]).name :
        p \in { q \in 0..(Len(data) \div 4 - 1) :
                  isToothPixel(data[4 * q + 1], data[4 * q + 2], data[4 * q + 3]) } }

\* the catalogs after applySmartWhitening ran on data
CatalogsAfterWhitening(cs, data) == CatalogsAfterLookup(cs, LookedUp(data))

\* the catalogs after applySmartEnhancement: only the whitening stage, the
\* first to run when it runs, touches a catalog; the options object (a
\* preset's settings, passed by reference) is only read
CatalogsAfterEnhancement(cs, result) ==
    IF result.log # << >> /\ result.log[1].stage = "whitening"
    THEN CatalogsAfterWhitening(cs, result.log[1].input)
    ELSE cs

\* no property of that name has been assigned in errorCounts
NoCounts == [context \in {} |-> 0]

\* new SmartFeaturesErrorHandler(), and the fields resetErrors assigns
SmartFeaturesErrorHandler == [errorCounts |-> NoCounts, fallbackMode |-> FALSE, errorLog |-> << >>]

\* the two async calls that may be in flight at once
TaskIds == {"first", "second"}

NoTask == [op |-> "none"]

Init ==
    /\ detectionResults = Null
    /\ catalogs = LoadedCatalogs
    /\ ml = [models |-> {}, isInitialized |-> FALSE, detectionResults |-> Null]
    /\ tasks = [t \in TaskIds |-> NoTask]
    /\ handler = SmartFeaturesErrorHandler
    /\ call = [op |-> "none"]

\* the caller's buffer after a call whose stages wrote the buffer they were handed
InputWrittenInPlace(imageData, result) ==
    IF result.log = << >> THEN imageData
    ELSE ImageData(result.log[Len(result.log)].output, imageData.width, imageData.height)

\* The caller's buffer after applySmartEnhancement: enhancedData is a new
\* ImageData over a new Uint8ClampedArray copied from imageData.data, and the
\* stages are handed enhancedData only.
InputAfterEnhancement(imageData, result) == imageData

\* image is the buffer as the caller passed it, input the same buffer once
\* the call is over, results the detection result the engine read
EnhanceCall(op, image, options, results, result) ==
    [op |-> op, image |-> image, options |-> options, results |-> results,
     result |-> result, input |-> InputAfterEnhancement(image, result)]

\* SmartEnhancementEngine.setDetectionResults(results)
SetDetectionResults ==
    /\ Idle
    /\ \E results \in DetectionResults \cup {Null} :
        /\ detectionResults' = results
        /\ call' = [op |-> "setDetectionResults", results |-> results]
    /\ UNCHANGED <<catalogs, ml, tasks, handler>>

\* SmartEnhancementEngine.applySmartEnhancement(imageData, options)
ApplySmartEnhancement ==
    /\ Idle
    /\ \E image \in Images, options \in OptionsDomain :
        /\ call' = EnhanceCall("applySmartEnhancement", image, options, detectionResults,
                               applySmartEnhancement(detectionResults, image, options))
        /\ catalogs' = CatalogsAfterEnhancement(catalogs, call'.result)
        /\ UNCHANGED <<detectionResults, ml, tasks, handler>>

\* SmartEnhancementEngine.applySmartEnhance(imageData)
ApplySmartEnhance ==
    /\ Idle
    /\ \E image \in Images \cup MalformedImages :
        /\ call' = EnhanceCall("applySmartEnhance", image, SmartEnhanceOptions,
                               detectionResults,
                               applySmartEnhancement(detectionResults, image,
                                                     SmartEnhanceOptions))
        /\ catalogs' = CatalogsAfterEnhancement(catalogs, call'.result)
        /\ UNCHANGED <<detectionResults, ml, tasks, handler>>

\* SmartEnhancementEngine.applyDentalMode(imageData)
ApplyDentalMode ==
    /\ Idle
    /\ \E image \in Images :
        /\ call' = EnhanceCall("applyDentalMode", image, DentalModeOptions,
                               detectionResults,
                               applySmartEnhancement(detectionResults, image,
                                                     DentalModeOptions))
        /\ catalogs' = CatalogsAfterEnhancement(catalogs, call'.result)
        /\ UNCHANGED <<detectionResults, ml, tasks, handler>>

\* SmartEnhancementEngine.applyClinicalMode(imageData)
ApplyClinicalMode ==
    /\ Idle
    /\ \E image \in Images :
        /\ call' = EnhanceCall("applyClinicalMode", image, ClinicalModeOptions,
                               detectionResults,
                               applySmartEnhancement(detectionResults, image,
                                                     ClinicalModeOptions))
        /\ catalogs' = CatalogsAfterEnhancement(catalogs, call'.result)
        /\ UNCHANGED <<detectionResults, ml, tasks, handler>>

\* The state after  detectionResults = await
\* this.mlIntegration.detectDentalFeatures(imageData);
\* this.smartEnhancement.setDetectionResults(detectionResults);  and the
\* engine call on options that follows: a detection that throws ends the
\* operation before anything is stored.
DetectThenEnhance(op, image, options, detected) ==
    IF detected.error # "none"
    THEN /\ call' = EnhanceCall(op, image, options, detectionResults,
                                Rejected(detected.error, << >>))
         /\ UNCHANGED <<detectionResults, catalogs, ml, tasks, handler>>
    ELSE /\ ml' = [ml EXCEPT !.detectionResults = detected.results]
         /\ detectionResults' = detected.results
         /\ call' = EnhanceCall(op, image, options, detected.results,
                                applySmartEnhancement(detected.results, image, options))
         /\ catalogs' = CatalogsAfterEnhancement(catalogs, call'.result)
         /\ UNCHANGED <<tasks, handler>>

\* SmartFilters.applySmartEnhance(imageData): detection, setDetectionResults,
\* then the engine's applySmartEnhance
FiltersApplySmartEnhance ==
    /\ Idle
    /\ \E image \in Images \cup MalformedImages :
        DetectThenEnhance("SmartFilters.applySmartEnhance", image, SmartEnhanceOptions,
                          detectDentalFeatures(ml.isInitialized, image, "Date.now()"))

\* SmartFilters.applyDentalMode(imageData)
FiltersApplyDentalMode ==
    /\ Idle
    /\ \E image \in Images \cup MalformedImages :
        DetectThenEnhance("SmartFilters.applyDentalMode", image, DentalModeOptions,
                          detectDentalFeatures(ml.isInitialized, image, "Date.now()"))

\* SmartFilters.applyCameraProfile(imageData, profileName): no detection
\* runs; the engine reads whatever results are stored
ApplyCameraProfile ==
    /\ Idle
    /\ \E image \in Images, profileName \in DOMAIN cameraProfiles \cup {"unknown"} :
        /\ call' =
              IF profileName \notin DOMAIN cameraProfiles
              THEN EnhanceCall("applyCameraProfile", image, Undefined, detectionResults,
                               Rejected("Error", << >>))
              ELSE LET options == CameraProfileOptions(cameraProfiles[profileName])
                   IN  EnhanceCall("applyCameraProfile", image, options, detectionResults,
                                   applySmartEnhancement(detectionResults, image, options))
        /\ catalogs' = CatalogsAfterEnhancement(catalogs, call'.result)
        /\ UNCHANGED <<detectionResults, ml, tasks, handler>>

\* SmartFilters.applyProfessionalPreset(imageData, presetName)
ApplyProfessionalPreset ==
    /\ Idle
    /\ \E image \in Images \cup MalformedImages,
          presetName \in DOMAIN professionalPresets \cup {"unknown"} :
        IF presetName \notin DOMAIN professionalPresets
        THEN /\ call' = EnhanceCall("applyProfessionalPreset", image, Undefined,
                                    detectionResults, Rejected("Error", << >>))
             /\ UNCHANGED <<detectionResults, catalogs, ml, tasks, handler>>
        ELSE DetectThenEnhance("applyProfessionalPreset", image,
                               professionalPresets[presetName].settings,
                               detectDentalFeatures(ml.isInitialized, image, "Date.now()"))

StageCall(op, image, strength, results, result) ==
    [op |-> op, image |-> image, strength |-> strength, results |-> results,
     result |-> result]

\* SmartEnhancementEngine.applySmartWhitening(imageData, strength)
ApplySmartWhitening ==
    /\ Idle
    /\ \E image \in Images, strength \in Strengths :
        /\ call' = StageCall("applySmartWhitening", image, strength, detectionResults,
                             applySmartWhitening(image.data, strength))
        /\ catalogs' = CatalogsAfterWhitening(catalogs, image.data)
        /\ UNCHANGED <<detectionResults, ml, tasks, handler>>

\* SmartEnhancementEngine.applyAdaptiveContrast(imageData, strength)
ApplyAdaptiveContrast ==
    /\ Idle
    /\ \E image \in Images, strength \in Strengths :
        /\ call' = StageCall("applyAdaptiveContrast", image, strength, detectionResults,
                             applyAdaptiveContrast(detectionResults, image.data,
                                                   image.width, image.height, strength))
        /\ UNCHANGED <<detectionResults, catalogs, ml, tasks, handler>>

\* SmartEnhancementEngine.applyAdaptiveNoiseReduction(imageData, strength)
ApplyAdaptiveNoiseReduction ==
    /\ Idle
    /\ \E image \in Images, strength \in Strengths :
        /\ call' = StageCall("applyAdaptiveNoiseReduction", image, strength,
                             detectionResults,
                             applyAdaptiveNoiseReduction(image.data, image.width,
                                                         image.height, strength))
        /\ UNCHANGED <<detectionResults, catalogs, ml, tasks, handler>>

\* the levels of applySmartEnhance, applyDentalMode and applyClinicalMode,
\* and two positive ones
SpecularLevels == {-30, -25, -15, 20, 100}

\* SmartEnhancementEngine.applySmartSpecularControl(imageData, level)
ApplySmartSpecularControl ==
    /\ Idle
    /\ \E image \in Images, level \in SpecularLevels :
        /\ call' = StageCall("applySmartSpecularControl", image, level, detectionResults,
                             applySmartSpecularControl(image.data, level))
        /\ UNCHANGED <<detectionResults, catalogs, ml, tasks, handler>>

\* findClosestVITAShade(r, g, b) followed by getTargetWhitenedShade on the
\* shade it returned, as in the pixel loop of applySmartWhitening
GetTargetWhitenedShade ==
    /\ Idle
    /\ \E rgb \in ProbeColours, factorPct \in FactorPcts :
        LET currentShade == findClosestVITAShade(rgb[1], rgb[2], rgb[3])
        IN  /\ call' = [op |-> "getTargetWhitenedShade", rgb |-> rgb,
                        currentShade |-> currentShade, factorPct |-> factorPct,
                        result |-> getTargetWhitenedShade(currentShade, factorPct)]
            /\ catalogs' = CatalogsAfterLookup(catalogs, {currentShade.name})
            /\ UNCHANGED <<detectionResults, ml, tasks, handler>>

\* SmartEnhancementEngine.findClosestVITAShade(r, g, b)
FindClosestVITAShade ==
    /\ Idle
    /\ \E rgb \in ShadeProbes :
        /\ call' = [op |-> "findClosestVITAShade", rgb |-> rgb,
                    result |-> findClosestVITAShade(rgb[1], rgb[2], rgb[3])]
        /\ catalogs' = CatalogsAfterLookup(catalogs, {call'.result.name})
        /\ UNCHANGED <<detectionResults, ml, tasks, handler>>

\* MLIntegration.initialize(): the two script loads, either of which may
\* fail, then loadDentalModels and isInitialized = true; a failure is
\* rethrown and nothing after it runs
Initialize ==
    /\ Idle
    /\ \E failed \in {"none", "loadTensorFlow", "loadOpenCV"} :
        /\ ml' = IF failed = "none"
                 THEN [ml EXCEPT !.models = DentalModels, !.isInitialized = TRUE]
                 ELSE ml
        /\ call' = [op |-> "initialize", failed |-> failed]
    /\ UNCHANGED <<detectionResults, catalogs, tasks, handler>>

\* MLIntegration.detectDentalFeatures(imageData): this.detectionResults is
\* assigned once every detector has returned
DetectDentalFeatures ==
    /\ Idle
    /\ \E image \in DetectImages \cup MalformedImages :
        /\ call' = [op |-> "detectDentalFeatures", image |-> image,
                    result |-> detectDentalFeatures(ml.isInitialized, image,
                                                    "Date.now()")]
        /\ ml' = IF call'.result.error = "none"
                 THEN [ml EXCEPT !.detectionResults = call'.result.results]
                 ELSE ml
    /\ UNCHANGED <<detectionResults, catalogs, tasks, handler>>

\* SmartFilters.detectCameraProfile(imageData)
DetectCameraProfile ==
    /\ Idle
    /\ \E image \in ProfileImages :
        call' = [op |-> "detectCameraProfile", image |-> image,
                 statistics |-> StatisticsOf(image),
                 result |-> detectCameraProfile(catalogs.cameraProfiles, image)]
    /\ UNCHANGED <<detectionResults, catalogs, ml, tasks, handler>>

\* the caller takes the result of the call
Return ==
    /\ ~Idle
    /\ call' = [op |-> "none"]
    /\ UNCHANGED <<detectionResults, catalogs, ml, tasks, handler>>

\* the calls on the engine, with detection results handed to it directly
Next ==
    \/ Return
    \/ SetDetectionResults
    \/ ApplySmartEnhancement
    \/ ApplySmartEnhance
    \/ ApplyDentalMode
    \/ ApplyClinicalMode
    \/ ApplyCameraProfile
    \/ ApplySmartWhitening
    \/ ApplyAdaptiveContrast
    \/ ApplyAdaptiveNoiseReduction
    \/ ApplySmartSpecularControl
    \/ GetTargetWhitenedShade
    \/ FindClosestVITAShade

Spec == Init /\ [][Next]_vars

\* the calls on MLIntegration and SmartFilters' operations that run a
\* detection, with the engine's one-touch enhancement
DetectNext ==
    \/ Return
    \/ Initialize
    \/ DetectDentalFeatures
    \/ DetectCameraProfile
    \/ FiltersApplySmartEnhance
    \/ FiltersApplyDentalMode
    \/ ApplyProfessionalPreset
    \/ ApplySmartEnhance

DetectSpec == Init /\ [][DetectNext]_vars

-----------------------------------------------------------------------------
(* Async calls in flight.  initialize, detectDentalFeatures and the         *)
(* SmartFilters operations are async functions: each runs from one await   *)
(* to the next without interruption, and between two awaits of one call    *)
(* the steps of another may run.  A task stands at the await it will       *)
(* resume from.  The detectors read nothing but imageData, so what         *)
(* detectDentalFeatures will have computed after its five awaits is fixed  *)
(* when it is called and kept in the task as results.                      *)

AsyncImages == { Flat(ToothA1), Spot(Gum, White) }

\* the SmartFilters operations that detect before they enhance, with the
\* options each hands to the engine
AsyncOperations ==
    { [op |-> "SmartFilters.applySmartEnhance", options |-> SmartEnhanceOptions],
      [op |-> "SmartFilters.applyDentalMode", options |-> DentalModeOptions],
      [op |-> "applyProfessionalPreset",
       options |-> professionalPresets["social-media"].settings] }

\* a call stands between setDetectionResults and the call of the engine
\* that follows it in the same statement sequence, with no await between
\* them: no other code runs until it has gone on
NoCallAtSet(ts) == FALSE

InSynchronousRun(ts) == \E t \in TaskIds : ts[t].op # "none" /\ ts[t].pc = "set"

\* a step of some call may start
MayRun == Idle /\ ~InSynchronousRun(tasks)

\* initialize() is called: it runs up to  await this.loadTensorFlow()
StartInitialize(t) ==
    /\ MayRun
    /\ tasks[t] = NoTask
    /\ tasks' = [tasks EXCEPT ![t] = [op |-> "initialize", pc |-> "loadTensorFlow",
                                      loaded |-> {}]]
    /\ UNCHANGED <<detectionResults, catalogs, ml, call, handler>>

\* the TensorFlow script loads, and initialize goes on to
\* await this.loadOpenCV(),  or fails to, and initialize rethrows
TensorFlowSettles(t) ==
    /\ MayRun
    /\ tasks[t].op = "initialize" /\ tasks[t].pc = "loadTensorFlow"
    /\ \E loaded \in BOOLEAN :
        IF loaded
        THEN /\ tasks' = [tasks EXCEPT ![t].pc = "loadOpenCV",
                                       ![t].loaded = @ \cup {"tensorflow"}]
             /\ UNCHANGED call
        ELSE /\ tasks' = [tasks EXCEPT ![t] = NoTask]
             /\ call' = [op |-> "initialize", failed |-> "loadTensorFlow"]
    /\ UNCHANGED <<detectionResults, catalogs, ml, handler>>

\* the OpenCV script loads and cv is defined: initialize calls
\* loadDentalModels, which assigns the five models, and awaits it; or the
\* load fails and initialize rethrows
OpenCVSettles(t) ==
    /\ MayRun
    /\ tasks[t].op = "initialize" /\ tasks[t].pc = "loadOpenCV"
    /\ \E loaded \in BOOLEAN :
        IF loaded
        THEN /\ tasks' = [tasks EXCEPT ![t].pc = "loadDentalModels",
                                       ![t].loaded = @ \cup {"opencv", "models"}]
             /\ ml' = [ml EXCEPT !.models = DentalModels]
             /\ UNCHANGED call
        ELSE /\ tasks' = [tasks EXCEPT ![t] = NoTask]
             /\ call' = [op |-> "initialize", failed |-> "loadOpenCV"]
             /\ UNCHANGED ml
    /\ UNCHANGED <<detectionResults, catalogs, handler>>

\* initialize resumes after  await this.loadDentalModels():
\* this.isInitialized = true
FinishInitialize(t) ==
    /\ MayRun
    /\ tasks[t].op = "initialize" /\ tasks[t].pc = "loadDentalModels"
    /\ ml' = [ml EXCEPT !.isInitialized = TRUE]
    /\ tasks' = [tasks EXCEPT ![t] = NoTask]
    /\ call' = [op |-> "initialize", failed |-> "none", loaded |-> tasks[t].loaded]
    /\ UNCHANGED <<detectionResults, catalogs, handler>>

\* detectDentalFeatures(imageData) is called on its own: it throws when
\* isInitialized is false and otherwise goes to its first await
StartDetection(t) ==
    /\ MayRun
    /\ tasks[t] = NoTask
    /\ \E image \in AsyncImages :
        LET detected == detectDentalFeatures(ml.isInitialized, image, "Date.now()")
        IN  IF detected.error # "none"
            THEN /\ call' = [op |-> "detectDentalFeatures", image |-> image,
                             result |-> detected]
                 /\ UNCHANGED tasks
            ELSE /\ tasks' = [tasks EXCEPT ![t] =
                                 [op |-> "detectDentalFeatures", pc |-> "detecting",
                                  image |-> image, options |-> Undefined,
                                  results |-> detected.results]]
                 /\ UNCHANGED call
    /\ UNCHANGED <<detectionResults, catalogs, ml, handler>>

\* a SmartFilters operation is called: it calls detectDentalFeatures, which
\* throws when isInitialized is false, and otherwise awaits it
StartOperation(t) ==
    /\ MayRun
    /\ tasks[t] = NoTask
    /\ \E image \in AsyncImages, operation \in AsyncOperations :
        LET detected == detectDentalFeatures(ml.isInitialized, image, "Date.now()")
        IN  IF detected.error # "none"
            THEN /\ call' = EnhanceCall(operation.op, image, operation.options,
                                        detectionResults, Rejected(detected.error, << >>))
                 /\ UNCHANGED tasks
            ELSE /\ tasks' = [tasks EXCEPT ![t] =
                                 [op |-> operation.op, pc |-> "detecting",
                                  image |-> image, options |-> operation.options,
                                  results |-> detected.results]]
                 /\ UNCHANGED call
    /\ UNCHANGED <<detectionResults, catalogs, ml, handler>>

\* detectDentalFeatures resumes after its last await:
\* this.detectionResults = results; return results.  Called on its own it
\* has returned; called by an operation, the operation is resumed later.
DetectionCompletes(t) ==
    /\ MayRun
    /\ tasks[t].op # "none" /\ tasks[t].pc = "detecting"
    /\ ml' = [ml EXCEPT !.detectionResults = tasks[t].results]
    /\ IF tasks[t].op = "detectDentalFeatures"
       THEN /\ tasks' = [tasks EXCEPT ![t] = NoTask]
            /\ call' = [op |-> "detectDentalFeatures", image |-> tasks[t].image,
                        result |-> Detected(tasks[t].results)]
       ELSE /\ tasks' = [tasks EXCEPT ![t].pc = "detected"]
            /\ UNCHANGED call
    /\ UNCHANGED <<detectionResults, catalogs, handler>>

\* the operation resumes with the results of its own detection:
\* this.smartEnhancement.setDetectionResults(detectionResults)
OperationSetsResults(t) ==
    /\ MayRun
    /\ tasks[t].op # "none" /\ tasks[t].pc = "detected"
    /\ detectionResults' = tasks[t].results
    /\ tasks' = [tasks EXCEPT ![t].pc = "set"]
    /\ UNCHANGED <<catalogs, ml, call, handler>>

\* the statement after it: the engine is called and reads
\* this.detectionResults
OperationEnhances(t) ==
    /\ Idle
    /\ tasks[t].op # "none" /\ tasks[t].pc = "set"
    /\ call' = EnhanceCall(tasks[t].op, tasks[t].image, tasks[t].options,
                           detectionResults,
                           applySmartEnhancement(detectionResults, tasks[t].image,
                                                 tasks[t].options))
    /\ catalogs' = CatalogsAfterEnhancement(catalogs, call'.result)
    /\ tasks' = [tasks EXCEPT ![t] = NoTask]
    /\ UNCHANGED <<detectionResults, ml, handler>>

AsyncNext ==
    \/ Return
    \/ \E t \in TaskIds : StartInitialize(t)
    \/ \E t \in TaskIds : TensorFlowSettles(t)
    \/ \E t \in TaskIds : OpenCVSettles(t)
    \/ \E t \in TaskIds : FinishInitialize(t)
    \/ \E t \in TaskIds : StartDetection(t)
    \/ \E t \in TaskIds : StartOperation(t)
    \/ \E t \in TaskIds : DetectionCompletes(t)
    \/ \E t \in TaskIds : OperationSetsResults(t)
    \/ \E t \in TaskIds : OperationEnhances(t)

AsyncSpec == Init /\ [][AsyncNext]_vars

-----------------------------------------------------------------------------
(* SmartFeaturesErrorHandler and wrapSmartFunction                          *)
(* (assets/js/comparison-view.js).  An entry of errorLog is kept as its    *)
(* context.                                                                *)

maxRetries == 3

\* the handle* calls made before the model stops making them; errorLog is
\* cut to its last 100 entries only beyond that
MaxErrors == 4

\* this.errorCounts[context]
CountOf(errorCounts, context) ==
    IF context \in DOMAIN errorCounts THEN Num(errorCounts[context]) ELSE Undefined

\* count < limit, false for a count that is undefined
LessThan(count, limit) == count # Undefined /\ count.v < limit

\* incrementErrorCount(context): (this.errorCounts[context] || 0) + 1
incrementErrorCount(h, context) ==
    [h EXCEPT !.errorCounts =
        [c \in DOMAIN h.errorCounts \cup {context} |->
            IF c # context THEN h.errorCounts[c]
            ELSE IF CountOf(h.errorCounts, context) = Undefined THEN 0 + 1
            ELSE h.errorCounts[context] + 1]]

\* logError(error, context)
logError(h, context) == [h EXCEPT !.errorLog = Append(@, context)]

\* enableFallbackMode()
enableFallbackMode(h) == [h EXCEPT !.fallbackMode = TRUE]

\* what a handle* call returns, with the handler as it leaves it
Handled(h, by, result) == [handler |-> h, by |-> by, result |-> result]

\* handleMLError(error, context) on the handler counted, which has logged
\* and counted the error
AfterCount(counted, context) ==
    IF counted.errorCounts[context] >= maxRetries
    THEN Handled(enableFallbackMode(counted), "handleMLError",
                 [success |-> FALSE, fallback |-> TRUE])
    ELSE Handled(counted, "handleMLError", [success |-> FALSE, fallback |-> FALSE])

handleMLError(h, context) == AfterCount(incrementErrorCount(logError(h, context), context), context)

\* getFallbackDetectionResults()
getFallbackDetectionResults ==
    [teeth |-> [boundaries |-> << >>, count |-> 0, confidence |-> 0, fallback |-> TRUE],
     gums |-> [line |-> Null, confidence |-> 0, fallback |-> TRUE],
     smileZones |-> [anterior |-> Null, posterior |-> Null, fallback |-> TRUE],
     plaque |-> [areas |-> << >>, confidence |-> 0, fallback |-> TRUE],
     restorations |-> [areas |-> << >>, confidence |-> 0, fallback |-> TRUE],
     timestamp |-> "Date.now()", fallback |-> TRUE]

\* getFallbackEnhancement()
getFallbackEnhancement ==
    [whitening |-> 20, contrast |-> 15, noise |-> 30, specular |-> -20,
     brightness |-> 10, fallback |-> TRUE]

handleDetectionError(h, context) ==
    Handled(logError(h, context), "handleDetectionError",
            [success |-> FALSE, fallback |-> TRUE, results |-> getFallbackDetectionResults])

handleEnhancementError(h, context) ==
    Handled(logError(h, context), "handleEnhancementError",
            [success |-> FALSE, fallback |-> TRUE, enhancement |-> getFallbackEnhancement])

\* handleNetworkError(error, context) with navigator.onLine = onLine
handleNetworkError(h, context, onLine) ==
    Handled(logError(h, context), "handleNetworkError",
            IF ~onLine THEN [success |-> FALSE, offline |-> TRUE]
            ELSE [success |-> FALSE, retry |-> TRUE])

\* handleMemoryError(error, context); clearMemoryCaches assigns no field of
\* the handler or of the engine
handleMemoryError(h, context) ==
    Handled(logError(h, context), "handleMemoryError", [success |-> FALSE, memory |-> TRUE])

\* isSmartFeaturesAvailable() without the test of fallbackMode
AvailableByCountAlone(h) ==
    LessThan(CountOf(h.errorCounts, "ml_initialization"), maxRetries)

\* isSmartFeaturesAvailable(): undefined < 3 is false
isSmartFeaturesAvailable(h) ==
    ~h.fallbackMode /\ LessThan(CountOf(h.errorCounts, "ml_initialization"), maxRetries)

\* resetErrors()
resetErrors(h) == SmartFeaturesErrorHandler

\* checkBrowserCompatibility() when the five checks give isCompatible
checkBrowserCompatibility(h, isCompatible) ==
    IF isCompatible THEN h ELSE enableFallbackMode(h)

\* message.includes(part) and context.includes(part) on the strings used
TextIncludes(string, part) ==
    CASE part = "network" -> string = "network timeout"
      [] part = "fetch" -> FALSE
      [] part = "memory" -> string = "out of memory"
      [] part = "out of memory" -> string = "out of memory"
      [] part = "detection" -> string = "detection"
      [] part = "enhancement" -> string = "enhancement"

\* the catch block of the wrapper for an error of that message
Caught(h, message, context, onLine) ==
    IF TextIncludes(message, "network") \/ TextIncludes(message, "fetch")
    THEN handleNetworkError(h, context, onLine)
    ELSE IF TextIncludes(message, "memory") \/ TextIncludes(message, "out of memory")
    THEN handleMemoryError(h, context)
    ELSE IF TextIncludes(context, "detection") THEN handleDetectionError(h, context)
    ELSE IF TextIncludes(context, "enhancement") THEN handleEnhancementError(h, context)
    ELSE handleMLError(h, context)

\* a call of the function wrapSmartFunction(originalFunction, errorHandler,
\* context) returns, the original returning "value" or throwing an error
\* of that message when it is invoked
Wrapped(h, context, message, onLine) ==
    IF ~isSmartFeaturesAvailable(h)
    THEN [handler |-> h, invoked |-> FALSE, by |-> "none",
          result |-> [success |-> FALSE, fallback |-> TRUE,
                      result |-> getFallbackEnhancement]]
    ELSE IF message = "none"
    THEN [handler |-> h, invoked |-> TRUE, by |-> "none", result |-> "value"]
    ELSE [handler |-> Caught(h, message, context, onLine).handler, invoked |-> TRUE,
          by |-> Caught(h, message, context, onLine).by,
          result |-> Caught(h, message, context, onLine).result]

MLContexts == {"ml_initialization", "model_loading"}

WrapContexts == {"ml_initialization", "detection", "enhancement"}

Messages == {"none", "model failed", "network timeout", "out of memory"}

\* the result of a call on the handler, with the handler as it was before
HandlerCall(op, context, before, outcome) ==
    [op |-> op, context |-> context, before |-> before, by |-> outcome.by,
     invoked |-> IF op = "wrapped" THEN outcome.invoked ELSE FALSE,
     result |-> outcome.result]

MayHandle == Idle /\ Len(handler.errorLog) < MaxErrors

HandleMLError ==
    /\ MayHandle
    /\ \E context \in MLContexts :
        /\ handler' = handleMLError(handler, context).handler
        /\ call' = HandlerCall("handleMLError", context, handler,
                               handleMLError(handler, context))
    /\ UNCHANGED <<detectionResults, catalogs, ml, tasks>>

HandleDetectionError ==
    /\ MayHandle
    /\ handler' = handleDetectionError(handler, "detection").handler
    /\ call' = HandlerCall("handleDetectionError", "detection", handler,
                           handleDetectionError(handler, "detection"))
    /\ UNCHANGED <<detectionResults, catalogs, ml, tasks>>

HandleEnhancementError ==
    /\ MayHandle
    /\ handler' = handleEnhancementError(handler, "enhancement").handler
    /\ call' = HandlerCall("handleEnhancementError", "enhancement", handler,
                           handleEnhancementError(handler, "enhancement"))
    /\ UNCHANGED <<detectionResults, catalogs, ml, tasks>>

HandleNetworkError ==
    /\ MayHandle
    /\ \E onLine \in BOOLEAN :
        /\ handler' = handleNetworkError(handler, "network", onLine).handler
        /\ call' = HandlerCall("handleNetworkError", "network", handler,
                               handleNetworkError(handler, "network", onLine))
    /\ UNCHANGED <<detectionResults, catalogs, ml, tasks>>

HandleMemoryError ==
    /\ MayHandle
    /\ handler' = handleMemoryError(handler, "memory").handler
    /\ call' = HandlerCall("handleMemoryError", "memory", handler,
                           handleMemoryError(handler, "memory"))
    /\ UNCHANGED <<detectionResults, catalogs, ml, tasks>>

ResetErrors ==
    /\ Idle
    /\ handler' = resetErrors(handler)
    /\ call' = [op |-> "resetErrors", context |-> "none", before |-> handler,
                by |-> "none", invoked |-> FALSE, result |-> Undefined]
    /\ UNCHANGED <<detectionResults, catalogs, ml, tasks>>

CheckBrowserCompatibility ==
    /\ Idle
    /\ \E isCompatible \in BOOLEAN :
        /\ handler' = checkBrowserCompatibility(handler, isCompatible)
        /\ call' = [op |-> "checkBrowserCompatibility", context |-> "none",
                    before |-> handler, by |-> "none", invoked |-> FALSE,
                    result |-> [compatible |-> isCompatible]]
    /\ UNCHANGED <<detectionResults, catalogs, ml, tasks>>

\* a function made by wrapSmartFunction is called
CallWrapped ==
    /\ Idle
    /\ isSmartFeaturesAvailable(handler) => Len(handler.errorLog) < MaxErrors
    /\ \E context \in WrapContexts, message \in Messages, onLine \in BOOLEAN :
        /\ handler' = Wrapped(handler, context, message, onLine).handler
        /\ call' = HandlerCall("wrapped", context, handler,
                               Wrapped(handler, context, message, onLine))
    /\ UNCHANGED <<detectionResults, catalogs, ml, tasks>>

HandlerNext ==
    \/ Return
    \/ HandleMLError
    \/ HandleDetectionError
    \/ HandleEnhancementError
    \/ HandleNetworkError
    \/ HandleMemoryError
    \/ ResetErrors
    \/ CheckBrowserCompatibility
    \/ CallWrapped

HandlerSpec == Init /\ [][HandlerNext]_vars

-----------------------------------------------------------------------------
(* The helper functions of the detectors, each applied to inputs of its own *)

\* the edge maps handed to findContours: every binary map of 3 columns and
\* MapRows rows, and the maps of 4 columns whose first 9, 10, 11 or 12
\* pixels, row by row, are edge pixels (one component of that size)
MapRows == 3

EdgeMap(width, height, on) ==
    [data |-> [k \in 1..(width * height) |-> IF (k - 1) \in on THEN 255 ELSE 0],
     width |-> width, height |-> height]

EdgeMaps ==
    { EdgeMap(3, MapRows, on) : on \in SUBSET (0..(3 * MapRows - 1)) }
        \cup { EdgeMap(4, 3, 0..(n - 1)) : n \in 9..12 }

\* ToothDetector.findContours(edges), with the traces it made
FindContours ==
    /\ Idle
    /\ \E edges \in EdgeMaps :
        call' = [op |-> "findContours", edges |-> edges,
                 result |-> findContours(edges), traces |-> Scan(edges).traces]
    /\ UNCHANGED <<detectionResults, catalogs, ml, tasks, handler>>

\* the images handed to detectGumLine: 3 columns and MapRows rows, the
\* pixels of on gum-coloured and the others white
GumMap(width, height, on) ==
    ImageData([i \in 1..(width * height * 4) |->
                  IF (i - 1) \div 4 \in on THEN Gum[((i - 1) % 4) + 1]
                  ELSE White[((i - 1) % 4) + 1]],
              width, height)

GumMaps == { GumMap(3, MapRows, on) : on \in SUBSET (0..(3 * MapRows - 1)) }

\* GumDetector.detectGumLine(imageData), with the points it classified
DetectGumLine ==
    /\ Idle
    /\ \E image \in GumMaps :
        call' = [op |-> "detectGumLine", image |-> image,
                 points |-> GumPointsFrom(image, 0), result |-> detectGumLine(image)]
    /\ UNCHANGED <<detectionResults, catalogs, ml, tasks, handler>>

\* what a registered test function does when it is called: a plain function
\* returns undefined or throws, an async function returns a promise that is
\* fulfilled, rejected, or still pending when the timeout fires
TestBehaviours == {"returns", "throws", "resolves", "rejects", "pending"}

MaxTests == 3

\* addTest(name, testFunction, category): the entry pushed on this.tests
addTest(name, testFunction) ==
    [name |-> name, test |-> testFunction, category |-> "general", timeout |-> 5000]

\* the result objects runSingleTest and runAllTests build
TestResult(test, passed, error) ==
    [name |-> test.name, category |-> test.category, passed |-> passed, error |-> error]

\* runSingleTest(test): how the promise it returns settles.  The executor
\* calls test.test().then(...): a throw of test.test(), and the TypeError of
\* reading .then of undefined, reject the promise; the handlers and the timer
\* resolve it
runSingleTest(test) ==
    IF test.test = "throws"
    THEN [settled |-> "rejected", message |-> "test failed"]
    ELSE IF test.test = "returns"
    THEN [settled |-> "rejected", message |-> "TypeError"]
    ELSE IF test.test = "resolves"
    THEN [settled |-> "resolved", value |-> TestResult(test, TRUE, Null)]
    ELSE IF test.test = "rejects"
    THEN [settled |-> "resolved", value |-> TestResult(test, FALSE, "test failed")]
    ELSE [settled |-> "resolved", value |-> TestResult(test, FALSE, "Test timed out")]

\* one turn of the loop of runAllTests: the awaited result, or the result the
\* catch block builds
ResultOf(test, settlement) ==
    IF settlement.settled = "resolved" THEN settlement.value
    ELSE TestResult(test, FALSE, settlement.message)

\* runAllTests: this.results after the loop over this.tests
RECURSIVE runAllTests(_, _)
runAllTests(tests, results) ==
    IF tests = << >> THEN results
    ELSE runAllTests(Tail(tests),
                     Append(results, ResultOf(Head(tests), runSingleTest(Head(tests)))))

TestNames == <<"first test", "second test", "third test", "fourth test">>

\* the suites of up to MaxTests registered tests
TestSuites ==
    UNION { { [i \in 1..n |-> addTest(TestNames[i], behaviour[i])] :
                behaviour \in [1..n -> TestBehaviours] } : n \in 0..MaxTests }

\* SmartFeaturesTestSuite.runAllTests() on a suite that is not running
RunAllTests ==
    /\ Idle
    /\ \E tests \in TestSuites :
        call' = [op |-> "runAllTests", tests |-> tests,
                 result |-> runAllTests(tests, << >>)]
    /\ UNCHANGED <<detectionResults, catalogs, ml, tasks, handler>>

\* values of the noise level on both sides of, and on, the thresholds 50
\* and 100 of calculateNoiseMatch, and the NaN of an image without samples
NoiseLevels == { NaN } \cup { Quotient(n, 1) : n \in {0, 49, 50, 75, 100, 101} }

\* channel averages whose differences lie on both sides of, and on, the
\* thresholds 0 and 10 of calculateColorMatch, and the sums of no pixels
ChannelLevels == {0, 10, 15, 20}

ColorProfiles ==
    { [r |-> 0, g |-> 0, b |-> 0, pixelCount |-> 0] }
        \cup { [r |-> r, g |-> g, b |-> b, pixelCount |-> 1] :
                 r \in ChannelLevels, g \in ChannelLevels, b \in ChannelLevels }

\* specular ratios on both sides of, and on, the thresholds 0.3, 0.5 and 0.7
\* of calculateSpecularMatch
SpecularTendencies == { Quotient(n, 10) : n \in {0, 2, 3, 4, 5, 6, 7, 8, 10} }

\* the loop of detectCameraProfile over the catalog, on the three statistics
\* of an image
MatchStatistics ==
    /\ Idle
    /\ \E noiseLevel \in NoiseLevels, colorProfile \in ColorProfiles,
          specularTendency \in SpecularTendencies :
        call' = [op |-> "bestMatch",
                 statistics |-> Statistics(noiseLevel, colorProfile, specularTendency),
                 result |-> BestMatch(catalogs.cameraProfiles,
                                      Statistics(noiseLevel, colorProfile,
                                                 specularTendency))]
    /\ UNCHANGED <<detectionResults, catalogs, ml, tasks, handler>>

\* the detectors' and the matcher's helper functions, each applied to
\* inputs of its own
AnalysisNext ==
    \/ Return
    \/ FindContours
    \/ DetectGumLine
    \/ RunAllTests
    \/ MatchStatistics

AnalysisSpec == Init /\ [][AnalysisNext]_vars

-----------------------------------------------------------------------------
(* Properties of the enhancement pipeline *)

EnhanceOps ==
    { "applySmartEnhancement", "applySmartEnhance", "applyDentalMode",
      "applyClinicalMode", "SmartFilters.applySmartEnhance",
      "SmartFilters.applyDentalMode", "applyCameraProfile", "applyProfessionalPreset" }

\* the call in flight went through applySmartEnhancement
IsEnhanceCall == call.op \in EnhanceOps /\ call.options # Undefined

NoStageFlag(o) ==
    /\ ~o.smartWhitening /\ ~o.adaptiveContrast /\ ~o.adaptiveNoise
    /\ ~o.smartSpecular /\ ~o.colorCorrection

AbsentOrNotAboveZero(x) == x = Undefined \/ x.v <= 0

NoStageStrength(o) ==
    /\ AbsentOrNotAboveZero(o.whitening) /\ AbsentOrNotAboveZero(o.contrast)
    /\ AbsentOrNotAboveZero(o.noise) /\ o.specular = Undefined

ReturnsInput ==
    /\ call.result.error = "none"
    /\ call.result.image = call.image

\* C1 as stated: when every stage flag of the options record is false or
\* absent, applySmartEnhancement returns a buffer byte-for-byte equal to its
\* input, for every image and every stored detection result.
C1_FlagsOffReturnsInput ==
    (IsEnhanceCall /\ NoStageFlag(call.options)) => ReturnsInput

\* C1 with the numeric options taken into account: when every stage flag is
\* false or absent, whitening, contrast and noise are absent or not above 0
\* and specular is absent, applySmartEnhancement returns a buffer
\* byte-for-byte equal to its input, for every image and every stored
\* detection result, and applying it to its own output returns that output.
C1_NoStageRequestedReturnsInput ==
    (IsEnhanceCall /\ NoStageFlag(call.options) /\ NoStageStrength(call.options)) =>
        /\ ReturnsInput
        /\ call.result.log = << >>
        /\ applySmartEnhancement(call.results, call.result.image, call.options).image
               = call.result.image

\* a tooth-coloured image passed with whitening 0 and contrast 0 and no flag,
\* while a detection result is stored
C1_Witness ==
    /\ call.op = "applySmartEnhancement"
    /\ NoStageFlag(call.options) /\ NoStageStrength(call.options)
    /\ call.options.whitening = Num(0) /\ call.options.contrast = Num(0)
    /\ call.image = Flat(ToothA1)
    /\ call.results # Null
    /\ call.result.image = call.image

\* C2: the output of an enhancement call depends only on the call's own
\* image and options: it is what the same call returns on an engine in which
\* no detection result was ever stored, whatever calls ran before it.
C2_ResultDependsOnlyOnImageAndOptions ==
    IsEnhanceCall =>
        call.result = applySmartEnhancement(Null, call.image, call.options)

\* a camera profile applied while the detection result of an earlier call,
\* with a tooth box, is still stored, and the contrast stage ran
C2_Witness ==
    /\ call.op = "applyCameraProfile"
    /\ call.options # Undefined
    /\ call.results # Null
    /\ call.results.teeth.boundaries # << >>
    /\ \E k \in DOMAIN call.result.log : call.result.log[k].stage = "contrast"

StageOrder == << "whitening", "contrast", "noise", "specular", "color" >>

StageRank(stage) == CHOOSE k \in DOMAIN StageOrder : StageOrder[k] = stage

\* C3: in every enhancement call the stages that run do so in the order
\* whitening, adaptive contrast, noise reduction, specular control, colour
\* correction, each at most once; the first reads a copy of the input, each
\* later one reads the buffer the one before it left, and the buffer
\* returned is the one the last stage left.
C3_StagesRunInFixedOrder ==
    IsEnhanceCall =>
        LET log == call.result.log
        IN  /\ \A i, j \in DOMAIN log :
                  i < j => StageRank(log[i].stage) < StageRank(log[j].stage)
            /\ \A k \in DOMAIN log :
                  log[k].input = IF k = 1 THEN call.image.data ELSE log[k - 1].output
            /\ call.result.error = "none" =>
                  call.result.image.data =
                      IF log = << >> THEN call.image.data ELSE log[Len(log)].output

\* a call in which all five stages ran and the whitening stage changed the
\* buffer the contrast stage read
C3_Witness ==
    /\ IsEnhanceCall
    /\ Len(call.result.log) = 5
    /\ call.result.log[1].output # call.result.log[1].input
    /\ call.result.log[2].input = call.result.log[1].output

-----------------------------------------------------------------------------
(* Properties of whitening *)

Pixels(data) == 0..(Len(data) \div 4 - 1)

\* r + g + b of pixel p
Brightness(data, p) == data[4 * p + 1] + data[4 * p + 2] + data[4 * p + 3]

Lightness(shade) == shade.r + shade.g + shade.b

\* C4: for every pixel isToothPixel classifies as tooth and every pair of
\* whitening strengths 0 <= s1 <= s2 <= 100, the brightness r + g + b of the
\* pixel after applySmartWhitening at s2 is not lower than after
\* applySmartWhitening at s1.
C4_WhiteningMonotoneInStrength ==
    call.op = "applySmartWhitening" =>
        \A s1 \in Strengths :
            s1 <= call.strength =>
                \A p \in Pixels(call.image.data) :
                    isToothPixel(call.image.data[4 * p + 1], call.image.data[4 * p + 2],
                                 call.image.data[4 * p + 3]) =>
                        Brightness(call.result.data, p) >=
                            Brightness(applySmartWhitening(call.image.data, s1).data, p)

\* the A1-coloured image whitened at strength 10: each pixel moves toward
\* B4 and ends at (255, 247, 237), darker than the (255, 248, 240) that
\* strength 0 leaves
C4_DarkenedAtStrength10 ==
    /\ call.op = "applySmartWhitening"
    /\ call.image = Flat(ToothA1)
    /\ call.strength = 10
    /\ Brightness(call.result.data, 0) = 739
    /\ Brightness(applySmartWhitening(call.image.data, 0).data, 0) = 743

\* C5: the order sequence is sorted darkest to lightest, so the shade
\* getTargetWhitenedShade returns for a catalog shade and a factor in [0, 1]
\* has lightness r + g + b not lower than the current shade's.
C5_TargetShadeNeverDarker ==
    (call.op = "getTargetWhitenedShade" /\ call.result # Undefined) =>
        /\ \A i, j \in DOMAIN shadeOrder :
              i < j => Lightness(vitaShades[shadeOrder[i]])
                           <= Lightness(vitaShades[shadeOrder[j]])
        /\ Lightness(call.result) >= Lightness(call.currentShade)

\* from A1 at factor 0.1 the target is B4, the next entry of the order
\* sequence, and B4 is darker than A1
C5_A1MovesToDarkerB4 ==
    /\ call.op = "getTargetWhitenedShade"
    /\ call.currentShade.name = "A1"
    /\ call.factorPct = 10
    /\ call.result = vitaShades["B4"]
    /\ Lightness(call.result) < Lightness(call.currentShade)

\* C6: for every shade findClosestVITAShade returns and every factor in
\* [0, 1], getTargetWhitenedShade returns the catalog entry named at index
\* currentIndex + floor(factor * (len - 1 - currentIndex)) of the order
\* sequence, clamped to the last index; that index is never before the
\* current shade's, and the entry is never undefined.
C6_TargetIsCatalogEntryAtComputedIndex ==
    call.op = "getTargetWhitenedShade" =>
        LET last == Len(shadeOrder) - 1
            ci == IndexOf(shadeOrder, call.currentShade.name)
            ti == Min2(ci + (call.factorPct * (last - ci)) \div 100, last)
        IN  /\ ci >= 0
            /\ ci <= ti /\ ti <= last
            /\ shadeOrder[ti + 1] \in DOMAIN vitaShades
            /\ call.result = vitaShades[shadeOrder[ti + 1]]

\* from A4, the first entry, at factor 0.5: index 0 + floor(0.5 * 16) = 8
C6_Witness ==
    /\ call.op = "getTargetWhitenedShade"
    /\ call.currentShade.name = "A4"
    /\ call.factorPct = 50
    /\ call.result = vitaShades[shadeOrder[9]]

-----------------------------------------------------------------------------
(* Properties of adaptive contrast *)

\* clamp((v - 128) * (1 + strength / 100 * tenths / 10) + 128) as a byte
ContrastByte(v, strength, tenths) ==
    ToUint8Clamp((v - 128) * (1000 + strength * tenths) + 128000, 1000)

InBox(box, x, y) ==
    /\ box.minX <= x /\ x < box.maxX
    /\ box.minY <= y /\ y < box.maxY

\* C7: when the detection result holds a tooth bounding box, every pixel
\* inside the box ends applyAdaptiveContrast adjusted with the tooth factor
\* 1.2, value' = clamp((value - 128) * (1 + strength / 100 * 1.2) + 128),
\* although the background region covers the pixel too.
C7_ToothBoxEndsWithToothFactor ==
    (call.op = "applyAdaptiveContrast" /\ call.results # Null) =>
        \A k \in DOMAIN call.results.teeth.boundaries :
            \A p \in Pixels(call.image.data) :
                InBox(call.results.teeth.boundaries[k].boundingBox,
                      p % call.image.width, p \div call.image.width) =>
                    \A c \in 1..3 :
                        call.result.data[4 * p + c] =
                            ContrastByte(call.image.data[4 * p + c], call.strength, 12)

\* a tooth box on an A1-coloured image at strength 50: the bytes inside the
\* box end as 0
C7_ToothBoxZeroed ==
    /\ call.op = "applyAdaptiveContrast"
    /\ call.results # Null
    /\ call.results.teeth.boundaries # << >>
    /\ call.image = Flat(ToothA1)
    /\ call.strength = 50
    /\ \A p \in Pixels(call.image.data) : Brightness(call.result.data, p) = 0

\* C8: with no detection result stored, applyAdaptiveContrast maps every R,
\* G and B value v to clamp((v - 128) * (1 + strength / 100) + 128, 0, 255)
\* and leaves every alpha byte unchanged.
C8_BackgroundFactorWithoutDetection ==
    (call.op = "applyAdaptiveContrast" /\ call.results = Null) =>
        \A p \in Pixels(call.image.data) :
            /\ \A c \in 1..3 :
                  call.result.data[4 * p + c] =
                      ContrastByte(call.image.data[4 * p + c], call.strength, 10)
            /\ call.result.data[4 * p + 4] = call.image.data[4 * p + 4]

\* no detection result, strength 0: the identity is expected and the R, G
\* and B bytes end as 0
C8_ZeroedAtStrength0 ==
    /\ call.op = "applyAdaptiveContrast"
    /\ call.results = Null
    /\ call.strength = 0
    /\ call.image = Spot(Gum, White)
    /\ \A p \in Pixels(call.image.data) :
          /\ Brightness(call.result.data, p) = 0
          /\ call.result.data[4 * p + 4] = call.image.data[4 * p + 4]

-----------------------------------------------------------------------------
(* Properties of noise reduction *)

\* The 3x3 bilateral-filtered value of channel c of pixel (x, y) of data:
\* the weighted mean of the channel over the pixel's neighbours that lie in
\* the image, stored as a byte.
BilateralValue(data, width, height, x, y, c) ==
    LET centerValue == data[(y * width + x) * 4 + c + 1]
        inside == {d \in Window : /\ x + d[1] >= 0 /\ x + d[1] < width
                                  /\ y + d[2] >= 0 /\ y + d[2] < height}
        value == [d \in inside |-> data[((y + d[2]) * width + (x + d[1])) * 4 + c + 1]]
        weight == [d \in inside |-> TotalWeight(d[1], d[2], value[d], centerValue)]
    IN  ToUint8Clamp(SumOver(inside, [d \in inside |-> weight[d] * value[d]]),
                     SumOver(inside, weight))

OnBorder(x, y, width, height) ==
    x = 0 \/ y = 0 \/ x = width - 1 \/ y = height - 1

-----------------------------------------------------------------------------
(* Failure of the pipeline *)

\* C10: for every well-formed image and every options record,
\* applySmartEnhancement completes and returns an image without raising an
\* error, and every byte of the output lies in 0..255.
C10_EnhanceNeverRaises ==
    IsEnhanceCall =>
        /\ call.result.error = "none"
        /\ \A i \in DOMAIN call.result.image.data :
              call.result.image.data[i] \in 0..255

\* colorCorrection set and nothing else: calculateWhiteBalance raises a
\* ReferenceError and the call returns no image
C10_ColorCorrectionRaises ==
    /\ call.op = "applySmartEnhancement"
    /\ call.options = Options(FALSE, Undefined, FALSE, Undefined, FALSE, Undefined,
                              FALSE, Undefined, TRUE)
    /\ call.result.error = "ReferenceError"
    /\ call.result.image = Null

-----------------------------------------------------------------------------
(* Properties of the options *)

\* the numeric option the caller supplied for a stage
SuppliedFor(o, stage) ==
    IF stage = "whitening" THEN o.whitening
    ELSE IF stage = "contrast" THEN o.contrast
    ELSE IF stage = "noise" THEN o.noise
    ELSE o.specular

\* C11: applySmartEnhancement never substitutes a default for a supplied
\* option: each of the whitening, contrast, noise and specular stages that
\* runs is invoked with exactly the number the caller supplied for it,
\* including when that number is 0.
C11_SuppliedStrengthIsPassedOn ==
    IsEnhanceCall =>
        \A k \in DOMAIN call.result.log :
            LET entry == call.result.log[k]
                supplied == SuppliedFor(call.options, entry.stage)
            IN  (entry.stage # "color" /\ supplied # Undefined) =>
                    entry.strength = supplied.v

\* adaptiveNoise set with noise 0 supplied: the noise stage runs with 40
C11_ZeroReplacedByDefault ==
    /\ call.op = "applySmartEnhancement"
    /\ call.options.adaptiveNoise
    /\ call.options.noise = Num(0)
    /\ \E k \in DOMAIN call.result.log :
          /\ call.result.log[k].stage = "noise"
          /\ call.result.log[k].strength = 40

-----------------------------------------------------------------------------
(* Properties of the shade lookup *)

\* squared Euclidean RGB distance between a colour and a catalog shade
SquaredDistance(rgb, key) ==
    (rgb[1] - vitaShades[key].r) * (rgb[1] - vitaShades[key].r)
        + (rgb[2] - vitaShades[key].g) * (rgb[2] - vitaShades[key].g)
        + (rgb[3] - vitaShades[key].b) * (rgb[3] - vitaShades[key].b)

\* C14: findClosestVITAShade(r, g, b) returns the catalog shade at minimum
\* Euclidean RGB distance, and among shades at equal minimum distance the
\* one that comes first in catalog iteration order; the shade carries its
\* catalog code as name, the same input gives the same code on every call,
\* and (255, 248, 240) gives A1.
C14_ClosestShadeFirstMinimumWins ==
    call.op = "findClosestVITAShade" =>
        /\ \E k \in DOMAIN VitaShadeKeys :
              /\ call.result.name = VitaShadeKeys[k]
              /\ \A j \in DOMAIN VitaShadeKeys :
                    /\ SquaredDistance(call.rgb, VitaShadeKeys[j])
                           >= SquaredDistance(call.rgb, VitaShadeKeys[k])
                    /\ j < k => SquaredDistance(call.rgb, VitaShadeKeys[j])
                                    > SquaredDistance(call.rgb, VitaShadeKeys[k])
              /\ call.result.r = vitaShades[VitaShadeKeys[k]].r
              /\ call.result.g = vitaShades[VitaShadeKeys[k]].g
              /\ call.result.b = vitaShades[VitaShadeKeys[k]].b
        /\ call.result = findClosestVITAShade(call.rgb[1], call.rgb[2], call.rgb[3])
        /\ call.rgb = <<255, 248, 240>> => call.result.name = "A1"

\* (255, 211, 195) lies at the same distance from A4 and from C4, the two
\* nearest shades; A4, first in the catalog, is returned
C14_Witness ==
    /\ call.op = "findClosestVITAShade"
    /\ call.rgb = <<255, 211, 195>>
    /\ SquaredDistance(call.rgb, "A4") = SquaredDistance(call.rgb, "C4")
    /\ call.result.name = "A4"

-----------------------------------------------------------------------------
(* The all-white example *)

\* C16: applySmartEnhance (whitening 30, contrast 25, noise 35, specular
\* -15, colour correction on) with no detection result stored, on the flat
\* 4 x 4 all-white image, returns an image equal to the input.
C16_AllWhiteUnchangedBySmartEnhance ==
    (call.op = "applySmartEnhance" /\ call.results = Null /\ call.image = AllWhite4x4) =>
        /\ call.result.error = "none"
        /\ call.result.image = call.image

\* on that input the contrast stage leaves every R, G and B byte 0 and the
\* colour correction stage raises: no image is returned
C16_AllWhiteZeroedThenRaises ==
    /\ call.op = "applySmartEnhance"
    /\ call.results = Null
    /\ call.image = AllWhite4x4
    /\ call.result.log[2].stage = "contrast"
    /\ \A p \in Pixels(call.image.data) : Brightness(call.result.log[2].output, p) = 0
    /\ call.result.error = "ReferenceError"
    /\ call.result.image = Null

-----------------------------------------------------------------------------
(* Frame properties *)

EngineEnhanceOps ==
    { "applySmartEnhancement", "applySmartEnhance", "applyDentalMode",
      "applyClinicalMode", "applyCameraProfile" }

\* C19: an enhancement call leaves the caller's input buffer and the stored
\* detection result unchanged, and the buffer it returns has the input's
\* width and height, data.length = width * height * 4 and the input's alpha
\* bytes.
C19_EnhanceLeavesInputAndResultsAlone ==
    IsEnhanceCall =>
        /\ call.input = call.image
        /\ call.op \in EngineEnhanceOps => detectionResults = call.results
        /\ call.result.error = "none" =>
              /\ call.result.image.width = call.image.width
              /\ call.result.image.height = call.image.height
              /\ Len(call.result.image.data) = call.image.width * call.image.height * 4
              /\ \A p \in Pixels(call.image.data) :
                    call.result.image.data[4 * p + 4] = call.image.data[4 * p + 4]

\* a call that returned a buffer differing from its input, made while a
\* detection result was stored
C19_Witness ==
    /\ call.op = "applySmartEnhancement"
    /\ call.results # Null
    /\ call.result.error = "none"
    /\ call.result.image # call.image
    /\ call.input = call.image
    /\ call.image = Spot(Gum, White)

\* C20: the three catalogs (VITA shades, camera profiles, professional
\* presets) are never changed by any sequence of calls: they hold their
\* initial entries with their initial values, among them the entries the
\* test suite requires.
C20_CatalogsNeverChange ==
    /\ catalogs.vitaShades = loadVITAShades
    /\ catalogs.cameraProfiles = loadCameraProfiles
    /\ catalogs.professionalPresets = loadProfessionalPresets
    /\ {"A1", "A2", "B1", "C1", "D1"} \subseteq DOMAIN catalogs.vitaShades
    /\ {"iphone-13-pro", "samsung-s23", "canon-eos"} \subseteq DOMAIN catalogs.cameraProfiles
    /\ {"clinical-standard", "shade-matching", "cosmetic-enhanced"}
           \subseteq DOMAIN catalogs.professionalPresets

\* after a professional preset whose whitening stage looked up the shade
\* of tooth pixels
C20_Witness ==
    /\ call.op = "applyProfessionalPreset"
    /\ call.options # Undefined
    /\ call.result.log # << >>
    /\ call.result.log[1].stage = "whitening"
    /\ LookedUp(call.image.data) # {}
    /\ catalogs = LoadedCatalogs

-----------------------------------------------------------------------------
(* Properties of the detectors and of camera profile matching, stated of   *)
(* DetectSpec                                                              *)

\* a buffer that keeps the ImageBuffer invariant, with no zero dimension
ValidImageBuffer(image) ==
    image.width > 0 /\ image.height > 0
        /\ Len(image.data) = image.width * image.height * 4

\* a detection call that returned a DetectionResult
DetectionReturned == call.op = "detectDentalFeatures" /\ call.result.error = "none"

SubResults == {"teeth", "gums", "smileZones", "plaque", "restorations"}

\* C12: for every valid image, a detection on an initialised MLIntegration
\* does not throw, and each of the tooth, gum line, plaque and restoration
\* detectors that found nothing (no boundary, a null line, no sample)
\* returns a sub-result with confidence 0.
C12_NothingFoundHasConfidenceZero ==
    /\ call.op = "detectDentalFeatures" /\ ValidImageBuffer(call.image)
           /\ ml.isInitialized => call.result.error = "none"
    /\ DetectionReturned =>
        /\ call.result.results.teeth.boundaries = << >>
               => call.result.results.teeth.confidence = 0
        /\ call.result.results.gums.line = Null
               => call.result.results.gums.confidence = 0
        /\ call.result.results.plaque.areas = << >>
               => call.result.results.plaque.confidence = 0
        /\ call.result.results.restorations.areas = << >>
               => call.result.results.restorations.confidence = 0

\* the all-white image: the tooth detector found nothing and reports 0, the
\* gum, plaque and restoration detectors found nothing and report 0.85, 0.7
\* and 0.6
C12_NothingFoundWithFixedConfidence ==
    /\ DetectionReturned
    /\ call.image = AllWhite4x4
    /\ call.result.results.teeth.boundaries = << >>
    /\ call.result.results.teeth.confidence = 0
    /\ call.result.results.gums.line = Null
    /\ call.result.results.gums.confidence = 85
    /\ call.result.results.plaque.areas = << >>
    /\ call.result.results.plaque.confidence = 70

UniformColour(image) ==
    \A p \in 0..(image.width * image.height - 1) :
        PixelAt(image.data, p) = PixelAt(image.data, 0)

AllWhite(image) ==
    \A p \in 0..(image.width * image.height - 1) :
        PixelAt(image.data, p) = << 255, 255, 255 >>

\* C17: for an image of one uniform colour the detection finds no edge
\* pixel and yields teeth.count = 0; for an all-white image it yields
\* gums.line = null.
C17_UniformImageHasNoTeethWhiteNoGumLine ==
    DetectionReturned =>
        /\ UniformColour(call.image) =>
              /\ \A k \in 1..(call.image.width * call.image.height) :
                    detectEdges(convertToGrayscale(call.image)).data[k] = 0
              /\ call.result.results.teeth.count = 0
        /\ AllWhite(call.image) => call.result.results.gums.line = Null

\* the detection of the flat 4 x 4 all-white image
C17_Witness ==
    /\ DetectionReturned
    /\ call.image = AllWhite4x4
    /\ call.image.width = 4 /\ call.image.height = 4
    /\ AllWhite(call.image)
    /\ call.result.results.teeth.count = 0
    /\ call.result.results.gums.line = Null

\* the calls that take an image and detect or enhance
DetectOrEnhanceOps ==
    { "detectDentalFeatures", "applySmartEnhance", "SmartFilters.applySmartEnhance",
      "SmartFilters.applyDentalMode", "applyProfessionalPreset" }

\* the call ended with an error and handed nothing back: no results
\* object, no output buffer, no stage run
FailedWithNothing(c) ==
    /\ c.result.error # "none"
    /\ c.op = "detectDentalFeatures" => c.result.results = Null
    /\ c.op # "detectDentalFeatures" => c.result.image = Null /\ c.result.log = << >>

ProfileIndex(id) == CHOOSE i \in DOMAIN profileOrder : profileOrder[i] = id

\* the averaged score of profile id for the statistics of the call, in
\* thirtieths
CallScore(id) == ScoreOf(call.statistics, catalogs.cameraProfiles[id])

\* C15: detectCameraProfile returns the id of a catalog profile, never
\* null, whose averaged score is maximal over the catalog, and of the
\* profiles with that score the first in the catalog's iteration order.
C15_BestProfileFirstAmongMaximal ==
    call.op = "detectCameraProfile" =>
        /\ call.result \in DOMAIN catalogs.cameraProfiles
        /\ \A id \in DOMAIN catalogs.cameraProfiles :
              /\ CallScore(id) <= CallScore(call.result)
              /\ CallScore(id) = CallScore(call.result)
                    => ProfileIndex(call.result) <= ProfileIndex(id)

\* an image for which two profiles share the maximal score: the earlier
\* one is returned
C15_Witness ==
    /\ call.op = "detectCameraProfile"
    /\ call.image = Flat(Warm)
    /\ call.result = "iphone-13-pro"
    /\ CallScore("samsung-s23") = CallScore("iphone-13-pro")
    /\ \A id \in DOMAIN catalogs.cameraProfiles : CallScore(id) <= CallScore(call.result)

-----------------------------------------------------------------------------
(* Specular control, stated of Spec *)

\* C21: applySmartSpecularControl leaves every pixel of average brightness
\* <= 200 (r + g + b <= 600) unchanged, and for every pixel of average
\* brightness > 200 the resulting brightness is not higher than the
\* original, for the negative levels the compositions pass and for positive
\* levels alike.
C21_SpecularNeverBrightens ==
    call.op = "applySmartSpecularControl" =>
        \A p \in Pixels(call.image.data) :
            /\ Brightness(call.image.data, p) <= 600 =>
                  \A c \in 1..4 : call.result.data[4 * p + c] = call.image.data[4 * p + c]
            /\ Brightness(call.image.data, p) > 600 =>
                  Brightness(call.result.data, p) <= Brightness(call.image.data, p)

\* level -15 (applySmartEnhance's) on the A1-coloured image: green goes
\* from 248 to 254 and blue from 240 to 246
C21_BrightenedAtLevelMinus15 ==
    /\ call.op = "applySmartSpecularControl"
    /\ call.image = Flat(ToothA1)
    /\ call.strength = -15
    /\ call.result.data[1] = 255
    /\ call.result.data[2] = 254
    /\ call.result.data[3] = 246
    /\ Brightness(call.result.data, 0) > Brightness(call.image.data, 0)

-----------------------------------------------------------------------------
(* The contour trace, stated of AnalysisSpec *)

\* the contours of the traces from the i-th on that have at least 10 points
RECURSIVE WithAtLeast10From(_, _)
WithAtLeast10From(traces, i) ==
    IF i > Len(traces) THEN << >>
    ELSE IF Len(traces[i].contour) >= 10
    THEN << traces[i].contour >> \o WithAtLeast10From(traces, i + 1)
    ELSE WithAtLeast10From(traces, i + 1)

\* C22: findContours keeps a traced component as a contour if and only if
\* it has at least 10 points: a component of fewer than 10 points is
\* discarded and one of exactly 10 points is kept.
C22_KeptIffAtLeast10Points ==
    call.op = "findContours" => call.result = WithAtLeast10From(call.traces, 1)

\* the map whose only component has exactly 10 points: it is traced and
\* discarded
C22_TenPointComponentDiscarded ==
    /\ call.op = "findContours"
    /\ Len(call.traces) = 1
    /\ Len(call.traces[1].contour) = 10
    /\ call.result = << >>

\* the indices of the edge pixels of a map
EdgePixels(edges) == { k \in 0..(edges.width * edges.height - 1) : edges.data[k + 1] = 255 }

\* pixels k and m of a map of that width are 4-neighbours
Adjacent(width, k, m) ==
    \/ k \div width = m \div width /\ (k - m = 1 \/ m - k = 1)
    \/ k - m = width \/ m - k = width

\* the maximal 4-connected set of edge pixels that contains the set from
RECURSIVE Grow(_, _)
GrowOnce(edges, from) ==
    from \cup { m \in EdgePixels(edges) : \E k \in from : Adjacent(edges.width, k, m) }

Grow(edges, from) ==
    IF GrowOnce(edges, from) = from THEN from ELSE Grow(edges, GrowOnce(edges, from))

\* the pixel indices of the points of a contour
IndicesOf(contour, width) == { contour[i][2] * width + contour[i][1] : i \in DOMAIN contour }

\* C23: for every binary edge map the flood fill of findContours and
\* traceContour terminates (each trace ends with an empty stack after one
\* iteration for its start and four for each pixel it marked), reads
\* edges.data only inside the map, and visits each edge pixel exactly once:
\* the traced components are pairwise disjoint, cover the edge pixels, hold
\* no point twice, and each is the maximal 4-connected set of edge pixels
\* around its first point.
C23_FloodFillTracesMaximalComponents ==
    call.op = "findContours" =>
        /\ \A i \in DOMAIN call.traces :
              /\ call.traces[i].stack = << >>
              /\ call.traces[i].pops = 1 + 4 * Len(call.traces[i].contour)
              /\ \A r \in DOMAIN call.traces[i].reads :
                    /\ call.traces[i].reads[r] >= 0
                    /\ call.traces[i].reads[r] < call.edges.width * call.edges.height
              /\ Len(call.traces[i].contour) > 0
              /\ Cardinality(IndicesOf(call.traces[i].contour, call.edges.width))
                    = Len(call.traces[i].contour)
              /\ IndicesOf(call.traces[i].contour, call.edges.width)
                    = Grow(call.edges, IndicesOf(<< call.traces[i].contour[1] >>,
                                                 call.edges.width))
        /\ \A i, j \in DOMAIN call.traces :
              i # j => IndicesOf(call.traces[i].contour, call.edges.width)
                           \cap IndicesOf(call.traces[j].contour, call.edges.width) = {}
        /\ UNION { IndicesOf(call.traces[i].contour, call.edges.width) :
                     i \in DOMAIN call.traces } = EdgePixels(call.edges)

\* a map with two components, one of them of five points, whose trace
\* popped neighbours outside the map and skipped them unread
C23_Witness ==
    /\ call.op = "findContours"
    /\ Len(call.traces) = 2
    /\ \E i \in DOMAIN call.traces :
          /\ Len(call.traces[i].contour) = 5
          /\ call.traces[i].pops > Len(call.traces[i].reads)
          /\ \E n \in 2..5 : call.traces[i].contour[n][2] < call.traces[i].contour[n - 1][2]

-----------------------------------------------------------------------------
(* The gum line fit, stated of AnalysisSpec *)

\* slope and intercept are numbers: quotients with a denominator other
\* than 0
FiniteLine(line) ==
    /\ line.slope.t = "ratio" /\ line.slope.den # 0
    /\ line.intercept.t = "ratio" /\ line.intercept.den # 0

\* n * sum(x^2) - (sum x)^2 over the points
LeastSquaresDenominator(points) ==
    Len(points) * SumOfProducts(points, 1, 1, 1)
        - SumOfProducts(points, 1, 0, 1) * SumOfProducts(points, 1, 0, 1)

\* C24: detectGumLine returns a null line exactly when fewer than 2 pixels
\* are classified gum-like; with 2 or more classified pixels, in any
\* arrangement, it returns a line whose slope and intercept are finite
\* numbers, the least-squares denominator being other than 0.
C24_FittedLineIsFinite ==
    call.op = "detectGumLine" =>
        /\ call.result = Null <=> Len(call.points) < 2
        /\ call.result # Null =>
              /\ LeastSquaresDenominator(call.points) # 0
              /\ FiniteLine(call.result)

\* two gum pixels one above the other: the denominator is 0 and a line
\* with slope NaN and intercept NaN is returned
C24_OneColumnGivesNaN ==
    /\ call.op = "detectGumLine"
    /\ call.points = << <<0, 0>>, <<0, 1>> >>
    /\ LeastSquaresDenominator(call.points) = 0
    /\ call.result # Null
    /\ call.result.slope = NaN
    /\ call.result.intercept = NaN

-----------------------------------------------------------------------------
(* Calls in flight, stated of AsyncSpec *)

\* C25: isInitialized becomes true only at the end of an initialize() call
\* in which TensorFlow, OpenCV and the dental models have all loaded; a
\* failed initialize() leaves it as it was; it never returns to false; and
\* while it is false a detectDentalFeatures call throws, by itself or inside
\* an operation: no detection is in flight afterwards, no result is
\* returned and the stored detectionResults stay as they were.
C25_DetectionGatedByInitialize ==
    [][ /\ ~ml.isInitialized /\ ml'.isInitialized
            => /\ call'.op = "initialize" /\ call'.failed = "none"
               /\ call'.loaded = {"tensorflow", "opencv", "models"}
               /\ ml.models = DentalModels
        /\ ml.isInitialized => ml'.isInitialized
        /\ call' # call /\ call'.op = "initialize" /\ call'.failed # "none"
            => ml'.isInitialized = ml.isInitialized
        /\ ~ml.isInitialized
            => /\ ml'.detectionResults = ml.detectionResults
               /\ detectionResults' = detectionResults
               /\ \A t \in TaskIds :
                     tasks'[t] # tasks[t] => tasks'[t].op \in {"none", "initialize"}
               /\ call' # call /\ call'.op = "detectDentalFeatures"
                     => call'.result = NotDetected("Error")
               /\ call' # call /\ call'.op \notin {"none", "initialize", "detectDentalFeatures"}
                     => call'.result = Rejected("Error", << >>)
      ]_vars

\* a detection refused while an initialize() call has assigned the models
\* and stands at its last await, isInitialized still being false
C25_Witness ==
    /\ call.op = "detectDentalFeatures"
    /\ call.result = NotDetected("Error")
    /\ ~ml.isInitialized
    /\ ml.models = DentalModels
    /\ ml.detectionResults = Null
    /\ \E t \in TaskIds : tasks[t].op = "initialize" /\ tasks[t].pc = "loadDentalModels"

AsyncOperationNames == { operation.op : operation \in AsyncOperations }

\* C26: when two SmartFilters operations on different images are in flight
\* and their awaited steps interleave in any order, the enhancement of each
\* reads the detection results computed from its own image.
C26_EnhancementReadsOwnDetection ==
    call.op \in AsyncOperationNames /\ call.result # Rejected("Error", << >>)
        => call.results = detectDentalFeatures(TRUE, call.image, "Date.now()").results

\* an operation has enhanced its image while another, on a different image,
\* stands before its setDetectionResults, its detection having been stored
\* in MLIntegration after the first one's
C26_Witness ==
    /\ call.op \in AsyncOperationNames
    /\ call.result # Rejected("Error", << >>)
    /\ call.image = Flat(ToothA1)
    /\ \E t \in TaskIds :
          /\ tasks[t].op \in AsyncOperationNames
          /\ tasks[t].pc = "detected"
          /\ tasks[t].image = Spot(Gum, White)
          /\ ml.detectionResults = tasks[t].results
          /\ call.results # tasks[t].results

-----------------------------------------------------------------------------
(* The error handler, stated of HandlerSpec *)

\* C27: on a freshly constructed SmartFeaturesErrorHandler, and right after
\* resetErrors, isSmartFeaturesAvailable() is true, and a function wrapped
\* by wrapSmartFunction that is called then invokes the original function
\* and does not return the fallback enhancement.
C27_FreshHandlerIsAvailable ==
    /\ handler = SmartFeaturesErrorHandler => isSmartFeaturesAvailable(handler)
    /\ call.op = "wrapped" /\ call.before = SmartFeaturesErrorHandler => call.invoked

\* the handler was as the constructor and resetErrors leave it when the
\* wrapped function was called, and the call returned the fallback
\* enhancement without invoking the original
C27_FreshHandlerReturnsFallback ==
    /\ call.op = "wrapped"
    /\ call.before = SmartFeaturesErrorHandler
    /\ handler = resetErrors(handler)
    /\ ~isSmartFeaturesAvailable(handler)
    /\ ~call.invoked
    /\ call.result = [success |-> FALSE, fallback |-> TRUE, result |-> getFallbackEnhancement]

\* a call on the handler has just returned
HandlerStep == call' # call /\ call'.op # "none"

\* C28: fallbackMode becomes true exactly at the handleMLError call that
\* brings the count of its context to maxRetries = 3 (each handleMLError
\* call adds one to the count of its context and nothing else changes a
\* count but resetErrors), or at a failed browser compatibility check; once
\* true it stays true through every call but resetErrors; and while it is
\* true a wrapped function does not invoke the original function and
\* returns a result with success false and fallback true.
C28_FallbackLatch ==
    [][ HandlerStep =>
          /\ ~handler.fallbackMode /\ handler'.fallbackMode
                => \/ call'.op = "checkBrowserCompatibility"
                   \/ /\ call'.by = "handleMLError"
                      /\ CountOf(handler'.errorCounts, call'.context) = Num(maxRetries)
          /\ call'.by = "handleMLError"
                => /\ CountOf(handler'.errorCounts, call'.context).v
                         = (IF CountOf(handler.errorCounts, call'.context) = Undefined
                            THEN 0 ELSE CountOf(handler.errorCounts, call'.context).v) + 1
                   /\ CountOf(handler'.errorCounts, call'.context).v >= maxRetries
                         => handler'.fallbackMode /\ call'.result.fallback
                   /\ \A c \in DOMAIN handler.errorCounts :
                         c # call'.context => handler'.errorCounts[c] = handler.errorCounts[c]
          /\ call'.by # "handleMLError" /\ call'.op # "resetErrors"
                => handler'.errorCounts = handler.errorCounts
          /\ handler.fallbackMode /\ call'.op # "resetErrors" => handler'.fallbackMode
          /\ handler.fallbackMode /\ call'.op = "wrapped"
                => /\ ~call'.invoked
                   /\ call'.result.success = FALSE /\ call'.result.fallback = TRUE
                   /\ handler' = handler
      ]_vars

\* three handleMLError calls for model_loading have latched fallbackMode
\* while the count of ml_initialization is 1, and a wrapped function called
\* then returned the fallback
C28_Witness ==
    /\ handler.fallbackMode
    /\ CountOf(handler.errorCounts, "model_loading") = Num(maxRetries)
    /\ CountOf(handler.errorCounts, "ml_initialization") = Num(1)
    /\ call.op = "wrapped"
    /\ ~call.invoked
    /\ call.result.fallback

\* C29: runAllTests records exactly one result per registered test, with
\* passed = TRUE for every test whose function finishes without throwing
\* within the timeout, plain or async, and passed = FALSE for every test
\* whose function throws, rejects or times out.
FinishesInTime(test) == test.test \in {"returns", "resolves"}

C29_PassedIffFinishedWithoutThrowing ==
    call.op = "runAllTests" =>
        /\ Len(call.result) = Len(call.tests)
        /\ \A i \in 1..Len(call.tests) :
            /\ call.result[i].name = call.tests[i].name
            /\ call.result[i].passed = FinishesInTime(call.tests[i])

\* a plain synchronous test function that returned normally is recorded failed
C29_PlainFunctionRecordedFailed ==
    /\ call.op = "runAllTests"
    /\ \E i \in 1..Len(call.tests) :
        /\ call.tests[i].test = "returns"
        /\ call.result[i].passed = FALSE
        /\ call.result[i].error = "TypeError"

\* C30: detectCameraProfile never returns 'google-pixel' or 'sony-alpha':
\* for every value of the three statistics the earlier entry 'iphone-14-pro'
\* scores at least as high as each of them, and a later entry replaces the
\* best match only on a strictly higher score.
C30_NeverGooglePixelNorSonyAlpha ==
    call.op = "bestMatch" =>
        /\ call.result \notin {"google-pixel", "sony-alpha"}
        /\ CallScore("iphone-14-pro") >= CallScore("google-pixel")
        /\ CallScore("iphone-14-pro") >= CallScore("sony-alpha")
        /\ \A id \in {"google-pixel", "sony-alpha"} :
             \E i, j \in 1..Len(profileOrder) :
                i < j /\ profileOrder[i] = "iphone-14-pro" /\ profileOrder[j] = id

\* statistics on which 'google-pixel' and 'sony-alpha' reach the highest
\* score of the catalog, and the tie went to 'iphone-14-pro'
C30_Witness ==
    /\ call.op = "bestMatch"
    /\ call.result = "iphone-14-pro"
    /\ CallScore("google-pixel") = CallScore("iphone-14-pro")
    /\ CallScore("sony-alpha") = CallScore("iphone-14-pro")
    /\ \A id \in DOMAIN catalogs.cameraProfiles : CallScore(id) <= CallScore("sony-alpha")

====
